---- MODULE Spec2Model ----
(***************************************************************************)
(* Claudemeter: cross-instance coordination of the browser profile.        *)
(*                                                                         *)
(* Several VS Code windows (instances) share one browser profile directory,*)
(* one lock file (browser.lock, taken with proper-lockfile) and one state  *)
(* file (browser-state.json).  Inside an instance every handler is an      *)
(* async function: the timer callback and the commands start whenever the  *)
(* event loop is free, so several handlers of one instance interleave at   *)
(* their awaits.  One step of the model is the code between two awaits     *)
(* that yield to the event loop.                                           *)
(*                                                                         *)
(* proper-lockfile: lock() succeeds when the lock is free or its mtime is  *)
(* older than `stale`; a live holder refreshes the mtime every stale/2, so *)
(* only the lock of a dead process goes stale.                             *)
(***************************************************************************)
EXTENDS Integers, FiniteSets, Sequences, TLC

\* ---------------------------------------------------------------- bounds
NumInstances == 2      \* VS Code windows sharing the profile directory
MaxInFlight  == 2      \* handlers of one window that can be in flight together
MaxCycles    == 2      \* fetch cycles that reach the browser over a run, all windows
MaxCrashes   == 1      \* extension hosts that die over a run
MaxPolls     == 4      \* polls that fit into waitForLogin's wait budget
MaxTicks     == 3      \* advances of the clock while the state file is watched
MaxBrowsers  == 2      \* browsers one scraper launches while its handles are watched
MaxDaysAhead == 2      \* whole days a reset time lies ahead, and the largest day part
MaxSeconds   == 2      \* the clock and a cookie's expiry at a session check, s
MaxPollMs    == 3000   \* the longest one cookie check of the login wait takes, ms

Instances == 1..NumInstances
Slots     == 1..MaxInFlight
Threads   == Instances \X Slots
NoThread  == <<0, 0>>
NoOwner   == 0

VARIABLES
    \* --- the file system, shared by all instances
    profile,        \* browser-session dir: "empty" | "nocookie" | "valid" | "expired"
    lockOwner,      \* browser.lock: the instance whose lock() holds it, or NoOwner
    lockStale,      \* the lock's mtime is older than BROWSER_LOCK_OPTIONS.stale
    stateFile,      \* browser-state.json: [state, writer, fresh]
    \* --- one extension host (process) per instance
    alive,          \* the process runs
    scraper,        \* extension.js `scraper` is not null
    releaseBrowserLock, \* scraper.releaseBrowserLock is not null
    browser,        \* scraper.browser is not null
    page,           \* scraper.page is not null
    isInitialized,
    isConnectedBrowser,
    authLive,       \* auth.browser exists and its process is connected
    loginWasCancelled,
    \* --- the performFetch calls in flight
    pc,             \* where the call is
    ret,            \* where close() returns to
    err,            \* how the last call of the slot ended
    \* --- history
    nCycles,        \* performFetch calls so far that went on to the web fetch
    cancelEnded,    \* a call ended with login cancelled and no manual fetch came since
    sharedRead,     \* what BrowserState.read() returned in this call, or "unread"
    startLI,        \* the state file read logging_in when fetchUsage started
    ops,            \* the call launched a browser or used a page
    acq,            \* an acquireBrowserLock of the call succeeded, not released since
    afterCancel,    \* the call is automatic and began while cancelEnded
    \* --- one call of auth.waitForLogin, poll by poll
    wPolls,         \* what the polls so far saw, in order
    wResult,        \* "waiting", or what waitForLogin returned
    \* --- browser-state.json under the clock
    bsFile,         \* the file: missing, garbage, without timestamp, a record
    bsNow,          \* Date.now(), ms
    bsTicks,        \* advances of the clock so far
    bsOut,          \* what the last BrowserState.read returned
    bsAt,           \* the file and the clock at that read
    \* --- browser.lock under the clock, one call of acquireBrowserLock a window
    lkOwner,        \* whose lock directory exists, NoOwner if none
    lkAge,          \* retry delays since the directory's mtime
    lkSt,           \* per window: idle, trying, holding, busy, done, dead
    lkHandle,       \* per window: this.releaseBrowserLock is set
    lkTries,        \* per window: attempts of the current lock() that failed
    lkDue,          \* per window: the next attempt of lock() is due now
    lkHeld,         \* per window: retry delays since it took the lock
    lkReclaimed,    \* a lock() removed a stale directory and took the lock
    \* --- the request handler of one page
    apiEndpoint,    \* scraper.apiEndpoint, NoUrl if none
    apiHeaders,     \* scraper.apiHeaders, "null" if none
    creditsEndpoint,
    overageEndpoint,
    firstSeen,      \* per endpoint shape: the first matching request of the session
    \* --- one call of fetchUsageData, await by await
    fdPc,           \* idle, usage, credits, overage, normalize, scrape, done
    fdLoaded,       \* how page.goto of the usage page went, "none" before
    fdCaptured,     \* per endpoint shape: the endpoint was captured
    fdCalls,        \* per endpoint shape: how its direct call went, "none" if not made
    fdArgs,         \* what processApiResponse was given for credits and overage
    fdNorm,         \* how processApiResponse went, "none" if not called
    fdScrape,       \* how the scrape went, "none" if not run
    fdOut,          \* what fetchUsageData returned or threw, "pending" before
    \* --- the handles of one scraper, its operations await by await
    hBrowser,       \* this.browser: a browser launched so far, or NoBrowser
    hPage,          \* this.page is not null
    hInit,          \* this.isInitialized
    hPc,            \* per operation in flight: the await it is at
    hOf,            \* per operation in flight: the browser it awaits
    hLive,          \* the browsers whose process runs
    hLaunched,      \* browsers launched so far
    \* --- one fetch cycle's error, from the throw to what the user sees
    rpPc,           \* where the cycle is
    rpManual,       \* performFetch(isManualRetry)
    rpSession,      \* scraper.hasExistingSession()
    rpThrown,       \* message of the error on its way up, or NoMessage
    rpCause,        \* what went wrong first: "none" | "noChrome" | "loginInProgress" | "other"
    rpWebError,     \* message of fetchUsage's webError, or NoMessage for null
    rpLoginCancelled, \* fetchUsage's loginCancelled
    rpTokenError,   \* performFetch's tokenError is not null
    rpBar,          \* status bar mark after stopSpinner: "plain" | "warning" | "error"
    rpShown,        \* message of showErrorMessage, or NoMessage
    \* --- a reset time, rendered by the scraper and read by the status bar
    rtPc,           \* "idle" | "rendered" | "scraped" | "parsed" | "again"
    rtNow,          \* new Date(), in ms
    rtIso,          \* the resetsAt timestamp handed to calculateResetTime
    rtRel,          \* usageData.resetTime: the relative string, as characters
    rtTotal,        \* calculateResetClockTime's totalMinutes
    rtAgain,        \* the relative string of a reset totalMinutes ahead
    \* --- the lock handle of a window against the lock file
    rlHandle,       \* per window: this.releaseBrowserLock is set
    rlFile,         \* whose lock the lock file is, NoOwner if none
    rlReleased,     \* per window: lockfile has marked its lock released
    rlLast,         \* per window: what happened to its lock last
    \* --- one call of auth.validateSession
    vsPc,           \* idle, checkCookie, probe, returned
    vsIn,           \* the page and the cookie jar the call meets
    vsCheck,        \* what checkCookie returned
    vsApi,          \* how the organizations probe ended, "none" if not made
    vsOut,          \* what validateSession returned
    \* --- one call of auth.waitForLogin under the clock
    twPc,           \* idle, loop (at the while test), poll, returned
    twNow,          \* Date.now(), ms
    twStart,        \* startTime
    twPolls,        \* polls made so far
    twSaw,          \* what the last poll saw
    twLastPoll,     \* how long the last poll took, ms
    twResult        \* what waitForLogin returned

fsVars    == <<profile, lockOwner, lockStale, stateFile>>
instVars  == <<alive, scraper, releaseBrowserLock, browser, page, isInitialized,
               isConnectedBrowser, authLive, loginWasCancelled>>
callVars  == <<pc, ret, err>>
histVars  == <<nCycles, cancelEnded, sharedRead, startLI, ops, acq,
               afterCancel>>
fetchVars == <<fsVars, instVars, callVars, histVars>>
waitVars  == <<wPolls, wResult>>
readVars  == <<bsFile, bsNow, bsTicks, bsOut, bsAt>>
lockVars  == <<lkOwner, lkAge, lkSt, lkHandle, lkTries, lkDue, lkHeld,
               lkReclaimed>>
captureVars == <<apiEndpoint, apiHeaders, creditsEndpoint, overageEndpoint, firstSeen>>
fetchDataVars == <<fdPc, fdLoaded, fdCaptured, fdCalls, fdArgs, fdNorm, fdScrape, fdOut>>
handlesVars == <<hBrowser, hPage, hInit, hPc, hOf, hLive, hLaunched>>
reportVars == <<rpPc, rpManual, rpSession, rpThrown, rpCause, rpWebError, rpLoginCancelled, rpTokenError, rpBar, rpShown>>
resetVars == <<rtPc, rtNow, rtIso, rtRel, rtTotal, rtAgain>>
releaseVars == <<rlHandle, rlFile, rlReleased, rlLast>>
validateVars == <<vsPc, vsIn, vsCheck, vsApi, vsOut>>
budgetVars == <<twPc, twNow, twStart, twPolls, twSaw, twLastPoll, twResult>>
auxVars   == <<waitVars, readVars, lockVars, captureVars, fetchDataVars, handlesVars, reportVars, resetVars, releaseVars, validateVars, budgetVars>>
\* what the steps of one part leave alone: the variables of the other parts
besidesWait == <<fetchVars, readVars, lockVars, captureVars, fetchDataVars, handlesVars, reportVars, resetVars, releaseVars, validateVars, budgetVars>>
besidesRead == <<fetchVars, waitVars, lockVars, captureVars, fetchDataVars, handlesVars, reportVars, resetVars, releaseVars, validateVars, budgetVars>>
besidesLock == <<fetchVars, waitVars, readVars, captureVars, fetchDataVars, handlesVars, reportVars, resetVars, releaseVars, validateVars, budgetVars>>
besidesCapture == <<fetchVars, waitVars, readVars, lockVars, fetchDataVars, handlesVars, reportVars, resetVars, releaseVars, validateVars, budgetVars>>
besidesFetchData == <<fetchVars, waitVars, readVars, lockVars, captureVars, handlesVars, reportVars, resetVars, releaseVars, validateVars, budgetVars>>
besidesHandles == <<fetchVars, waitVars, readVars, lockVars, captureVars, fetchDataVars, reportVars, resetVars, releaseVars, validateVars, budgetVars>>
besidesReport == <<fetchVars, waitVars, readVars, lockVars, captureVars, fetchDataVars, handlesVars, resetVars, releaseVars, validateVars, budgetVars>>
besidesReset == <<fetchVars, waitVars, readVars, lockVars, captureVars, fetchDataVars, handlesVars, reportVars, releaseVars, validateVars, budgetVars>>
besidesRelease == <<fetchVars, waitVars, readVars, lockVars, captureVars, fetchDataVars, handlesVars, reportVars, resetVars, validateVars, budgetVars>>
besidesValidate == <<fetchVars, waitVars, readVars, lockVars, captureVars, fetchDataVars, handlesVars, reportVars, resetVars, releaseVars, budgetVars>>
besidesBudget == <<fetchVars, waitVars, readVars, lockVars, captureVars, fetchDataVars, handlesVars, reportVars, resetVars, releaseVars, validateVars>>
vars      == <<fetchVars, auxVars>>

\* ------------------------------------------------------------ BrowserState

\* BrowserState.read: the record if it exists and is younger than 5 minutes
BrowserStateRead(f) ==
    IF f.state # "none" /\ f.fresh THEN f.state ELSE "unknown"

\* BrowserState.write(state, reason): the record with timestamp = now
BrowserStateWrite(s, t) == [state |-> s, writer |-> t, fresh |-> TRUE]

\* the record as a reader can find it: as written, or by now older than
\* 5 minutes (Date.now() - data.timestamp >= 300000)
Aged(f) ==
    {f} \cup (IF f.state # "none" /\ f.fresh
              THEN {[f EXCEPT !.fresh = FALSE, !.writer = <<0, 0>>]} ELSE {})

\* BrowserState.clear: the file is unlinked
BrowserStateClear == [state |-> "none", writer |-> NoThread, fresh |-> FALSE]

\* ------------------------------------------------------------ the lock

\* a lock() that takes the lock whoever holds it
CanLockNoExclusion(owner, stale) == TRUE

\* lockfile.lock(lockFile, BROWSER_LOCK_OPTIONS) can take the lock
CanLock(owner, stale) == owner = NoOwner \/ stale

\* ------------------------------------------------------------ decisions

\* an ensureLoggedIn that bails out on logging_in only
SharedStateDecisionNoDegrade(s) ==
    CASE s = "logging_in"   -> "LOGIN_IN_PROGRESS"
      [] OTHER              -> "proceed"

\* ensureLoggedIn: what the shared state read makes it do
SharedStateDecision(s) ==
    CASE s = "logging_in"   -> "LOGIN_IN_PROGRESS"
      [] s = "login_failed" -> "LOGIN_FAILED_SHARED"
      [] OTHER              -> "proceed"

\* auth.hasExistingSession: a cookie file under the profile is non-empty
hasExistingSession(p) == p # "empty"

\* a performFetch that does not consult loginWasCancelled
SkipAfterCancelNever(cancelled, isManualRetry) == FALSE

\* performFetch: skip the web fetch after a cancelled login
SkipAfterCancel(cancelled, isManualRetry) == cancelled /\ ~isManualRetry

\* a performFetch that skips without session files before a scraper exists
SkipNoSessionFromStart(isManualRetry, hasScraper, p) ==
    ~isManualRetry /\ ~hasExistingSession(p)

\* performFetch: no login prompt on auto-refresh
SkipNoSession(isManualRetry, hasScraper, p) ==
    ~isManualRetry /\ hasScraper /\ ~hasExistingSession(p)

\* an openLoginBrowser whose cancelled branch leaves the marker in place
LoginOutcomeStateKeepsMarker(result) ==
    CASE result = "success"   -> "none"
      [] result = "cancelled" -> "logging_in"
      [] OTHER                -> "login_failed"

\* openLoginBrowser: the shared state it leaves for a waitForLogin result
LoginOutcomeState(result) ==
    CASE result = "success" -> "none"
      [] OTHER              -> "login_failed"

\* a close() that releases the lock inside `if (this.browser)`
CloseReleasesOnlyWithBrowser(hadBrowser, held) == hadBrowser /\ held

\* close(): the finally releases the lock whether or not a browser was open
CloseReleasesLock(hadBrowser, held) == held

\* ------------------------------------------------------------ helpers

Inst(t) == t[1]

\* the lowest free slot of the instance takes the next handler
FreeSlot(i, c) ==
    /\ pc[<<i, c>>] = "idle"
    /\ \A d \in Slots : d < c => pc[<<i, d>>] # "idle"

\* releaseBrowserLockIfHeld: release() and releaseBrowserLock = null
ReleaseLock(i) ==
    IF releaseBrowserLock[i]
    THEN /\ lockOwner' = IF lockOwner = i THEN NoOwner ELSE lockOwner
         /\ releaseBrowserLock' = [releaseBrowserLock EXCEPT ![i] = FALSE]
         /\ acq' = [u \in Threads |-> IF Inst(u) = i THEN FALSE ELSE acq[u]]
    ELSE UNCHANGED <<lockOwner, releaseBrowserLock, acq>>

\* what a launch on the profile directory leaves there: Chromium creates its
\* cookie store, so an empty profile may stop being empty
ProfileAfterLaunch(p) == IF p = "empty" THEN {"empty", "nocookie"} ELSE {p}

\* this.browser = await puppeteer.launch(...); this.page = ...; isInitialized = true
Launched(i) ==
    /\ browser' = [browser EXCEPT ![i] = TRUE]
    /\ page' = [page EXCEPT ![i] = TRUE]
    /\ isInitialized' = [isInitialized EXCEPT ![i] = TRUE]
    /\ isConnectedBrowser' = [isConnectedBrowser EXCEPT ![i] = FALSE]
    /\ authLive' = [authLive EXCEPT ![i] = TRUE]
    /\ profile' \in ProfileAfterLaunch(profile)

\* a teardown that forgets to reset isInitialized
DroppedKeepsInitialized(i) ==
    /\ browser' = [browser EXCEPT ![i] = FALSE]
    /\ page' = [page EXCEPT ![i] = FALSE]
    /\ UNCHANGED isInitialized

\* this.browser = null; this.page = null; this.isInitialized = false
Dropped(i) ==
    /\ browser' = [browser EXCEPT ![i] = FALSE]
    /\ page' = [page EXCEPT ![i] = FALSE]
    /\ isInitialized' = [isInitialized EXCEPT ![i] = FALSE]

\* ------------------------------------------------------------ Init

FetchIdle ==
    /\ profile \in {"empty", "valid"}
    /\ lockOwner = NoOwner
    /\ lockStale = FALSE
    /\ stateFile = BrowserStateClear
    /\ alive = [i \in Instances |-> TRUE]
    /\ scraper = [i \in Instances |-> FALSE]
    /\ releaseBrowserLock = [i \in Instances |-> FALSE]
    /\ browser = [i \in Instances |-> FALSE]
    /\ page = [i \in Instances |-> FALSE]
    /\ isInitialized = [i \in Instances |-> FALSE]
    /\ isConnectedBrowser = [i \in Instances |-> FALSE]
    /\ authLive = [i \in Instances |-> FALSE]
    /\ loginWasCancelled = [i \in Instances |-> FALSE]
    /\ pc = [t \in Threads |-> "idle"]
    /\ ret = [t \in Threads |-> "end"]
    /\ err = [t \in Threads |-> "none"]
    /\ nCycles = 0
    /\ cancelEnded = [i \in Instances |-> FALSE]
    /\ sharedRead = [t \in Threads |-> "unread"]
    /\ startLI = [t \in Threads |-> FALSE]
    /\ ops = [t \in Threads |-> FALSE]
    /\ acq = [t \in Threads |-> FALSE]
    /\ afterCancel = [t \in Threads |-> FALSE]

\* ------------------------------------------------------------ performFetch

\* openLoginBrowser up to the await of lockfile.lock: with the lock already
\* held acquireBrowserLock returns at once and logging_in is written
\* an acquireBrowserLock without the re-entrancy check
AlreadyHoldingNever(handle) == FALSE

\* acquireBrowserLock: if (this.releaseBrowserLock) return
AlreadyHolding(handle) == handle

OpenLoginEnter(t, f) ==
    LET i == Inst(t) IN
    IF AlreadyHolding(releaseBrowserLock[i])
    THEN /\ acq' = [acq EXCEPT ![t] = TRUE]
         /\ stateFile' = BrowserStateWrite("logging_in", t)
         /\ pc' = [pc EXCEPT ![t] = "olOpen"]
    ELSE /\ pc' = [pc EXCEPT ![t] = "olLock"]
         /\ stateFile' = f
         /\ UNCHANGED acq

\* an ensureLoggedIn that probes the session even without session files
ValidatesAlways(hasSession) == TRUE

\* ensureLoggedIn: `if (!hasSession)` opens the login browser at once,
\* otherwise the session is validated first
ValidatesFirst(hasSession) == hasSession

\* ensureLoggedIn up to its first await: BrowserState.read() finds f, the two
\* early throws, hasExistingSession, and the entry of validateSession or of
\* openLoginBrowser
ensureLoggedInRead(t, f) ==
    LET s == BrowserStateRead(f)
        d == SharedStateDecision(s)
    IN
    /\ sharedRead' = [sharedRead EXCEPT ![t] = s]
    /\ ret' = [ret EXCEPT ![t] = "end"]
    /\ IF d # "proceed"
       THEN /\ err' = [err EXCEPT ![t] = d]
            /\ pc' = [pc EXCEPT ![t] = "close"]
            /\ stateFile' = f
            /\ UNCHANGED acq
       ELSE /\ err' = [err EXCEPT ![t] = "none"]
            /\ IF ValidatesFirst(hasExistingSession(profile))
               THEN /\ pc' = [pc EXCEPT ![t] = "validate"]
                    /\ stateFile' = f
                    /\ UNCHANGED acq
               ELSE OpenLoginEnter(t, f)

\* performFetch(isManualRetry) up to the first await: either a skip, or
\* fetchUsage up to the await of initialize (session files exist) or, through
\* ensureLoggedIn, up to the await inside it
performFetch(i, isManualRetry, tokenOnlyMode) ==
    \E c \in Slots :
      LET t == <<i, c>>
          skipped(why) ==
             /\ err' = [err EXCEPT ![t] = why]
             /\ startLI' = [startLI EXCEPT ![t] = FALSE]
             /\ sharedRead' = [sharedRead EXCEPT ![t] = "unread"]
             /\ UNCHANGED <<pc, ret, scraper, nCycles, stateFile, acq>>
      IN
      /\ alive[i]
      /\ nCycles < MaxCycles
      /\ FreeSlot(i, c)
      /\ afterCancel' = [afterCancel EXCEPT ![t] = ~isManualRetry /\ cancelEnded[i]]
      /\ cancelEnded' = IF isManualRetry
                        THEN [cancelEnded EXCEPT ![i] = FALSE] ELSE cancelEnded
      /\ ops' = [ops EXCEPT ![t] = FALSE]
      /\ UNCHANGED <<profile, lockOwner, lockStale, releaseBrowserLock, browser,
                     page, isInitialized, isConnectedBrowser, authLive, alive>>
      /\ IF SkipAfterCancel(loginWasCancelled[i], isManualRetry)
         THEN /\ skipped("SKIPPED_LOGIN_CANCELLED")
              /\ UNCHANGED loginWasCancelled
         ELSE IF SkipNoSession(isManualRetry, scraper[i], profile)
         THEN /\ skipped("SKIPPED_NO_SESSION")
              /\ UNCHANGED loginWasCancelled
         ELSE /\ loginWasCancelled' =
                    IF isManualRetry /\ loginWasCancelled[i]
                    THEN [loginWasCancelled EXCEPT ![i] = FALSE]
                    ELSE loginWasCancelled
              /\ IF tokenOnlyMode
                 THEN \* fetchUsage returns at once, webError null
                      skipped("TOKEN_ONLY")
                 ELSE /\ nCycles' = nCycles + 1
                      /\ scraper' = [scraper EXCEPT ![i] = TRUE]
                      /\ \E f \in Aged(stateFile) :
                           /\ startLI' = [startLI EXCEPT ![t] =
                                             BrowserStateRead(f) = "logging_in"]
                           /\ IF hasExistingSession(profile)
                              THEN /\ pc' = [pc EXCEPT ![t] = "init"]
                                   /\ err' = [err EXCEPT ![t] = "none"]
                                   /\ ret' = [ret EXCEPT ![t] = "end"]
                                   /\ sharedRead' = [sharedRead EXCEPT ![t] = "unread"]
                                   /\ stateFile' = f
                                   /\ UNCHANGED acq
                              ELSE ensureLoggedInRead(t, f)

\* the setInterval callback of createAutoRefreshTimer, and the startup fetch
TimerTick(i) == \E tk \in BOOLEAN : performFetch(i, FALSE, tk)

\* COMMANDS.FETCH_NOW
FetchNow(i) == \E tk \in BOOLEAN : performFetch(i, TRUE, tk)

\* ------------------------------------------------------------ initialize

\* initialize(false) is called by fetchUsage ("init...") and by
\* openLoginBrowser after a successful login ("olRe...")
InFetchUsage(p) == p \in {"init", "initLock", "initLaunch"}
LockPc(p)   == IF InFetchUsage(p) THEN "initLock" ELSE "olReLock"
LaunchPc(p) == IF InFetchUsage(p) THEN "initLaunch" ELSE "olReLaunch"
DonePc(p)   == IF InFetchUsage(p) THEN "ensure" ELSE "olGoto"

\* the browser whose handle the instance keeps may have been closed by the
\* user or have died since it was last used
StillLive(i) == IF authLive[i] THEN {TRUE, FALSE} ELSE {FALSE}

\* initialize: acquireBrowserLock up to its await of lockfile.lock
initializeLock(t) ==
    IF AlreadyHolding(releaseBrowserLock[Inst(t)])
    THEN \* "Already holding browser lock, skipping acquire"
         /\ pc' = [pc EXCEPT ![t] = LaunchPc(pc[t])]
         /\ acq' = [acq EXCEPT ![t] = TRUE]
    ELSE /\ pc' = [pc EXCEPT ![t] = LockPc(pc[t])]
         /\ UNCHANGED acq

\* initialize: the reuse check, the dead-browser branch and the call of
\* acquireBrowserLock up to its await of lockfile.lock
initialize(t) ==
    LET i == Inst(t) IN
    /\ alive[i]
    /\ pc[t] \in {"init", "olReInit"}
    /\ UNCHANGED <<fsVars, alive, scraper, releaseBrowserLock, isConnectedBrowser,
                   loginWasCancelled, ret, err, nCycles,
                   cancelEnded, sharedRead, startLI, ops, afterCancel>>
    /\ IF isInitialized[i] /\ browser[i]
       THEN \E live \in StillLive(i) :
              /\ authLive' = [authLive EXCEPT ![i] = live]
              /\ IF live
                 THEN \* browser.version() answers: reuse, no lock taken
                      /\ pc' = [pc EXCEPT ![t] = DonePc(pc[t])]
                      /\ UNCHANGED <<browser, page, isInitialized, acq>>
                 ELSE \* browser.version() throws: the handles are dropped
                      /\ Dropped(i)
                      /\ initializeLock(t)
       ELSE /\ UNCHANGED <<browser, page, isInitialized, authLive>>
            /\ initializeLock(t)

\* acquireBrowserLock: lockfile.lock resolves
acquireBrowserLock(t) ==
    LET i == Inst(t) IN
    /\ alive[i]
    /\ pc[t] \in {"initLock", "olReLock", "olLock"}
    /\ CanLock(lockOwner, lockStale)
    /\ lockOwner' = i
    /\ lockStale' = FALSE
    /\ releaseBrowserLock' = [releaseBrowserLock EXCEPT ![i] = TRUE]
    /\ acq' = [acq EXCEPT ![t] = TRUE]
    /\ IF pc[t] = "olLock"
       THEN \* openLoginBrowser goes on: BrowserState.write('logging_in')
            /\ stateFile' = BrowserStateWrite("logging_in", t)
            /\ pc' = [pc EXCEPT ![t] = "olOpen"]
       ELSE /\ pc' = [pc EXCEPT ![t] = LaunchPc(pc[t])]
            /\ UNCHANGED stateFile
    /\ UNCHANGED <<profile, alive, scraper, browser, page, isInitialized,
                   isConnectedBrowser, authLive, loginWasCancelled, ret, err, nCycles, cancelEnded, sharedRead, startLI, ops,
                   afterCancel>>

\* acquireBrowserLock: the 90 retries are used up, "Browser busy"
acquireBrowserLockBusy(t) ==
    LET i == Inst(t) IN
    /\ alive[i]
    /\ pc[t] \in {"initLock", "olReLock", "olLock"}
    /\ ~CanLock(lockOwner, lockStale)
    /\ err' = [err EXCEPT ![t] = "BROWSER_BUSY"]
    /\ pc' = [pc EXCEPT ![t] = "close"]
    /\ ret' = [ret EXCEPT ![t] = "end"]
    \* inside openLoginBrowser's try the catch writes login_failed
    /\ stateFile' = IF pc[t] = "olReLock"
                    THEN BrowserStateWrite("login_failed", t) ELSE stateFile
    /\ UNCHANGED <<profile, lockOwner, lockStale, instVars, histVars>>

\* initialize: findChrome, puppeteer.launch, newPage; the catch releases the lock
LaunchOutcomes == {"ok", "CHROME_NOT_FOUND", "launch_error"}

initializeLaunch(t, outcome) ==
    LET i == Inst(t) IN
    /\ alive[i]
    /\ pc[t] \in {"initLaunch", "olReLaunch"}
    /\   IF outcome = "ok"
         THEN /\ Launched(i)
              /\ ops' = [ops EXCEPT ![t] = TRUE]
              /\ pc' = [pc EXCEPT ![t] = DonePc(pc[t])]
              /\ UNCHANGED <<lockOwner, lockStale, stateFile, alive, scraper,
                             releaseBrowserLock, loginWasCancelled, ret, err, nCycles, cancelEnded, sharedRead, startLI, acq,
                             afterCancel>>
         ELSE /\ ReleaseLock(i)
              /\ err' = [err EXCEPT ![t] = "LAUNCH_FAILED"]
              /\ pc' = [pc EXCEPT ![t] = "close"]
              /\ ret' = [ret EXCEPT ![t] = "end"]
              /\ stateFile' = IF pc[t] = "olReLaunch"
                              THEN BrowserStateWrite("login_failed", t)
                              ELSE stateFile
              /\ UNCHANGED <<profile, lockStale, alive, scraper, browser, page,
                             isInitialized, isConnectedBrowser, authLive,
                             loginWasCancelled, nCycles, cancelEnded, sharedRead, startLI, ops, afterCancel>>

\* ------------------------------------------------------------ ensureLoggedIn

\* ensureLoggedIn called after initialize returned
ensureLoggedIn(t) ==
    LET i == Inst(t) IN
    /\ alive[i]
    /\ pc[t] = "ensure"
    /\ UNCHANGED <<profile, lockOwner, lockStale, instVars, nCycles,
                   cancelEnded, startLI, ops, afterCancel>>
    /\ \E f \in Aged(stateFile) : ensureLoggedInRead(t, f)

\* ClaudeAuth.validateSession: the reason it returns, from what checkCookie
\* and the organizations API probe report
ApiAnswers == {"ok", "rejected", "throws"}

\* a validateSession that takes a probe it could not make for a yes
validateSessionReasonLenient(hasPage, checkError, exists, expired, api) ==
    IF ~hasPage THEN "no_page"
    ELSE IF checkError THEN "cookie_check_error"
    ELSE IF ~exists THEN "no_cookie"
    ELSE IF expired THEN "cookie_expired"
    ELSE CASE api = "rejected" -> "server_rejected"
           [] OTHER            -> "valid"

validateSessionReason(hasPage, checkError, exists, expired, api) ==
    IF ~hasPage THEN "no_page"
    ELSE IF checkError THEN "cookie_check_error"
    ELSE IF ~exists THEN "no_cookie"
    ELSE IF expired THEN "cookie_expired"
    ELSE CASE api = "ok"       -> "valid"
           [] api = "rejected" -> "server_rejected"
           [] OTHER            -> "validation_error"

\* validateSession in this environment: auth.page is the page of the last
\* launch (setPageAndBrowser), so it is set whenever ensureLoggedIn gets here;
\* the cookie check throws on a page that is gone and may throw on a live one;
\* a cookie that is still good in the profile may have passed its expiry by now
ValidateResults(i) ==
    { validateSessionReason(TRUE, e, profile \in {"valid", "expired"}, x, a) :
        e \in (IF page[i] /\ authLive[i] THEN BOOLEAN ELSE {TRUE}),
        x \in (IF profile = "valid" THEN BOOLEAN ELSE {TRUE}),
        a \in ApiAnswers }

\* an ensureLoggedIn that opens the login browser whatever validateSession says
NeedsLoginAlways(reason) == TRUE

\* ensureLoggedIn: `if (validation.valid)` is the fast path, anything else
\* goes to openLoginBrowser
NeedsLogin(reason) == reason # "valid"

\* ensureLoggedIn after hasSession: validateSession returned v, then the fast
\* path (clear, goto usage page) or openLoginBrowser
validateSession(t, v) ==
    LET i == Inst(t) IN
    /\ alive[i]
    /\ pc[t] = "validate"
    /\ v \in ValidateResults(i)
    /\ ops' = [ops EXCEPT ![t] = TRUE]
    /\ UNCHANGED <<lockOwner, lockStale, instVars, nCycles,
                   cancelEnded, sharedRead, startLI, afterCancel>>
    /\ profile' = IF v = "cookie_expired" THEN "expired" ELSE profile
    /\ IF ~NeedsLogin(v)
       THEN /\ stateFile' = BrowserStateClear
            /\ UNCHANGED acq
            /\ \E loaded \in BOOLEAN :
                 IF loaded
                 THEN /\ pc' = [pc EXCEPT ![t] = "fetch"]
                      /\ UNCHANGED <<err, ret>>
                 ELSE /\ err' = [err EXCEPT ![t] = "LOAD_FAILED"]
                      /\ pc' = [pc EXCEPT ![t] = "close"]
                      /\ ret' = [ret EXCEPT ![t] = "end"]
       ELSE /\ OpenLoginEnter(t, stateFile)
            /\ UNCHANGED <<err, ret>>

\* the reasons validateSession can return
ValidateReasons ==
    {"no_page", "cookie_check_error", "no_cookie", "cookie_expired", "valid",
     "server_rejected", "validation_error"}

\* ------------------------------------------------------------ openLoginBrowser

OpenOutcomes == {"ok", "CHROME_NOT_FOUND", "launch_error", "goto_error"}

\* the outcomes in which puppeteer.launch went through
OpensBrowser == {"ok", "goto_error"}

\* forceOpenBrowser: an open browser is closed and dropped, then a headed one
\* is launched on the profile and sent to the login page; no lock is taken here
forceOpenBrowser(i, outcome) ==
    IF outcome \in OpensBrowser
    THEN Launched(i)
    ELSE /\ IF browser[i]
            THEN /\ Dropped(i)
                 /\ authLive' = [authLive EXCEPT ![i] = FALSE]
            ELSE UNCHANGED <<browser, page, isInitialized, authLive>>
         /\ UNCHANGED <<isConnectedBrowser, profile>>

\* openLoginBrowser: forceOpenBrowser and the check of its result
openLoginBrowser(t, outcome) ==
    LET i == Inst(t) IN
    /\ alive[i]
    /\ pc[t] = "olOpen"
    /\   /\ forceOpenBrowser(i, outcome)
         /\ ops' = [ops EXCEPT ![t] = ops[t] \/ outcome \in OpensBrowser]
         /\ IF outcome = "ok"
            THEN /\ pc' = [pc EXCEPT ![t] = "olWait"]
                 /\ UNCHANGED <<lockOwner, releaseBrowserLock, acq, stateFile,
                                err, ret>>
            ELSE /\ stateFile' = BrowserStateWrite("login_failed", t)
                 /\ ReleaseLock(i)
                 /\ err' = [err EXCEPT ![t] = "OPEN_FAILED"]
                 /\ pc' = [pc EXCEPT ![t] = "close"]
                 /\ ret' = [ret EXCEPT ![t] = "end"]
    /\ UNCHANGED <<lockStale, alive, scraper, loginWasCancelled, nCycles,
                   cancelEnded, sharedRead, startLI, afterCancel>>

\* auth.waitForLogin: what the polling can report
WaitResults(live) == IF live THEN {"success", "timeout"} ELSE {"cancelled"}

\* openLoginBrowser: waitForLogin returned; the state write of the branch
waitForLogin(t) ==
    LET i == Inst(t) IN
    /\ alive[i]
    /\ pc[t] = "olWait"
    /\ \E live \in StillLive(i) : \E r \in WaitResults(live) :
         /\ authLive' = [authLive EXCEPT ![i] = live]
         /\ stateFile' = IF LoginOutcomeState(r) = "none"
                         THEN BrowserStateClear
                         ELSE BrowserStateWrite(LoginOutcomeState(r), t)
         /\ profile' = IF r = "success" THEN "valid" ELSE profile
         /\ ret' = [ret EXCEPT ![t] = CASE r = "success"   -> "reinit"
                                        [] r = "cancelled" -> "cancel"
                                        [] OTHER           -> "timeout"]
    /\ pc' = [pc EXCEPT ![t] = "close"]
    /\ UNCHANGED <<lockOwner, lockStale, alive, scraper, releaseBrowserLock,
                   browser, page, isInitialized, isConnectedBrowser,
                   loginWasCancelled, err, histVars>>

\* openLoginBrowser after the relaunch: goto usage page, then the finally
openLoginBrowserGoto(t) ==
    LET i == Inst(t) IN
    /\ alive[i]
    /\ pc[t] = "olGoto"
    /\ ReleaseLock(i)
    /\ ops' = [ops EXCEPT ![t] = TRUE]
    /\ \E loaded \in {page[i] /\ authLive[i], FALSE} :
         IF loaded
         THEN /\ pc' = [pc EXCEPT ![t] = "fetch"]
              /\ UNCHANGED <<stateFile, err, ret>>
         ELSE /\ stateFile' = BrowserStateWrite("login_failed", t)
              /\ err' = [err EXCEPT ![t] = "LOAD_FAILED"]
              /\ pc' = [pc EXCEPT ![t] = "close"]
              /\ ret' = [ret EXCEPT ![t] = "end"]
    /\ UNCHANGED <<profile, lockStale, alive, scraper, browser, page,
                   isInitialized, isConnectedBrowser, authLive, loginWasCancelled,
                   nCycles, cancelEnded, sharedRead, startLI,
                   afterCancel>>

\* ------------------------------------------------------------ fetchUsageData

fetchUsageData(t) ==
    LET i == Inst(t) IN
    /\ alive[i]
    /\ pc[t] = "fetch"
    /\ ops' = [ops EXCEPT ![t] = TRUE]
    /\ \E ok \in {page[i] /\ authLive[i], FALSE} :
         err' = [err EXCEPT ![t] = IF ok THEN "none" ELSE "FETCH_FAILED"]
    /\ pc' = [pc EXCEPT ![t] = "close"]
    /\ ret' = [ret EXCEPT ![t] = "end"]
    /\ UNCHANGED <<fsVars, instVars, nCycles, cancelEnded,
                   sharedRead, startLI, acq, afterCancel>>

\* ------------------------------------------------------------ close

\* where close() returns to: the throw of openLoginBrowser's cancelled and
\* timed-out branches, its relaunch, or the end of fetchUsage and performFetch
Return(t) ==
    LET i == Inst(t) IN
    CASE ret[t] = "reinit" ->
           /\ pc' = [pc EXCEPT ![t] = "olReInit"]
           /\ UNCHANGED <<ret, err, loginWasCancelled, cancelEnded>>
      [] ret[t] = "cancel" ->
           /\ err' = [err EXCEPT ![t] = "LOGIN_CANCELLED"]
           /\ pc' = [pc EXCEPT ![t] = "close"]
           /\ ret' = [ret EXCEPT ![t] = "end"]
           /\ UNCHANGED <<loginWasCancelled, cancelEnded>>
      [] ret[t] = "timeout" ->
           /\ err' = [err EXCEPT ![t] = "LOGIN_TIMEOUT"]
           /\ pc' = [pc EXCEPT ![t] = "close"]
           /\ ret' = [ret EXCEPT ![t] = "end"]
           /\ UNCHANGED <<loginWasCancelled, cancelEnded>>
      [] OTHER ->
           /\ pc' = [pc EXCEPT ![t] = "idle"]
           /\ loginWasCancelled' =
                 IF err[t] = "LOGIN_CANCELLED"
                 THEN [loginWasCancelled EXCEPT ![i] = TRUE]
                 ELSE loginWasCancelled
           /\ cancelEnded' =
                 IF err[t] = "LOGIN_CANCELLED"
                 THEN [cancelEnded EXCEPT ![i] = TRUE]
                 ELSE cancelEnded
           /\ err' = [err EXCEPT ![t] = "none"]
           /\ UNCHANGED ret

\* the bookkeeping of a call is dropped when the call is over
Forget(t) ==
    IF pc'[t] = "idle"
    THEN /\ sharedRead' = [sharedRead EXCEPT ![t] = "unread"]
         /\ startLI' = [startLI EXCEPT ![t] = FALSE]
         /\ ops' = [ops EXCEPT ![t] = FALSE]
         /\ afterCancel' = [afterCancel EXCEPT ![t] = FALSE]
    ELSE UNCHANGED <<sharedRead, startLI, ops, afterCancel>>

\* close(): the browser is closed (or killed) and the fields are reset; the
\* finally then awaits the release of a held lock
close(t) ==
    LET i == Inst(t) IN
    /\ alive[i]
    /\ pc[t] \in {"close"}
    /\ IF browser[i]
       THEN /\ Dropped(i)
            /\ isConnectedBrowser' = [isConnectedBrowser EXCEPT ![i] = FALSE]
            /\ authLive' = [authLive EXCEPT ![i] = FALSE]
       ELSE UNCHANGED <<browser, page, isInitialized, isConnectedBrowser, authLive>>
    /\ IF CloseReleasesLock(browser[i], releaseBrowserLock[i])
       THEN /\ pc' = [pc EXCEPT ![t] = "closeRel"]
            /\ UNCHANGED <<ret, err, loginWasCancelled, cancelEnded>>
       ELSE Return(t)
    /\ Forget(t)
    /\ UNCHANGED <<fsVars, alive, scraper, releaseBrowserLock, nCycles,
                   acq>>

\* close(): releaseBrowserLockIfHeld resolved, close() returns
closeRelease(t) ==
    LET i == Inst(t) IN
    /\ alive[i]
    /\ pc[t] = "closeRel"
    /\ ReleaseLock(i)
    /\ Return(t)
    /\ Forget(t)
    /\ UNCHANGED <<profile, lockStale, stateFile, alive, scraper, browser, page,
                   isInitialized, isConnectedBrowser, authLive, nCycles>>

\* ------------------------------------------------------------ commands

\* COMMANDS.OPEN_BROWSER: scraper.forceOpenBrowser() called directly
OpenBrowserCommand(i, outcome) ==
    /\ alive[i]
    /\ scraper[i]
    /\ forceOpenBrowser(i, outcome)
    /\ UNCHANGED <<lockOwner, lockStale, stateFile, alive, scraper,
                   releaseBrowserLock, loginWasCancelled, callVars, nCycles,
                   cancelEnded, sharedRead, startLI, ops, acq, afterCancel>>

\* COMMANDS.CLEAR_SESSION, confirmed by the user: scraper.clearSession() is
\* reset(), whose close() drops this window's browser and releases a lock it
\* holds, and then auth.clearSession(), whose rmSync removes the profile
\* directory or fails and is reported
ClearSessionCommand(i) ==
    /\ alive[i]
    /\ scraper[i]
    /\ IF browser[i]
       THEN /\ Dropped(i)
            /\ isConnectedBrowser' = [isConnectedBrowser EXCEPT ![i] = FALSE]
            /\ authLive' = [authLive EXCEPT ![i] = FALSE]
       ELSE UNCHANGED <<browser, page, isInitialized, isConnectedBrowser, authLive>>
    /\ ReleaseLock(i)
    /\ \E removed \in BOOLEAN :
         profile' = IF removed THEN "empty" ELSE profile
    /\ UNCHANGED <<lockStale, stateFile, alive, scraper, loginWasCancelled,
                   callVars, nCycles, cancelEnded, sharedRead, startLI, ops,
                   afterCancel>>

\* ------------------------------------------------------------ environment

\* the extension host dies: nothing of the process is left, a held lock stays
Crash(i) ==
    /\ alive[i]
    /\ Cardinality({j \in Instances : ~alive[j]}) < MaxCrashes
    /\ alive' = [alive EXCEPT ![i] = FALSE]
    /\ releaseBrowserLock' = [releaseBrowserLock EXCEPT ![i] = FALSE]
    /\ browser' = [browser EXCEPT ![i] = FALSE]
    /\ page' = [page EXCEPT ![i] = FALSE]
    /\ isInitialized' = [isInitialized EXCEPT ![i] = FALSE]
    /\ authLive' = [authLive EXCEPT ![i] = FALSE]
    /\ scraper' = [scraper EXCEPT ![i] = FALSE]
    /\ loginWasCancelled' = [loginWasCancelled EXCEPT ![i] = FALSE]
    /\ cancelEnded' = [cancelEnded EXCEPT ![i] = FALSE]
    /\ pc' = [t \in Threads |-> IF Inst(t) = i THEN "idle" ELSE pc[t]]
    /\ ret' = [t \in Threads |-> IF Inst(t) = i THEN "end" ELSE ret[t]]
    /\ err' = [t \in Threads |-> IF Inst(t) = i THEN "none" ELSE err[t]]
    /\ sharedRead' = [t \in Threads |-> IF Inst(t) = i THEN "unread" ELSE sharedRead[t]]
    /\ startLI' = [t \in Threads |-> IF Inst(t) = i THEN FALSE ELSE startLI[t]]
    /\ ops' = [t \in Threads |-> IF Inst(t) = i THEN FALSE ELSE ops[t]]
    /\ acq' = [t \in Threads |-> IF Inst(t) = i THEN FALSE ELSE acq[t]]
    /\ afterCancel' = [t \in Threads |-> IF Inst(t) = i THEN FALSE ELSE afterCancel[t]]
    /\ UNCHANGED <<fsVars, isConnectedBrowser, nCycles>>

\* BROWSER_LOCK_OPTIONS.stale: nobody refreshed the lock for 6 minutes
LockGoesStale ==
    /\ lockOwner # NoOwner
    /\ ~alive[lockOwner]
    /\ ~lockStale
    /\ lockStale' = TRUE
    /\ UNCHANGED <<profile, lockOwner, stateFile, instVars, callVars, histVars>>

\* ------------------------------------------------------------ BrowserState.read

\* State expires after 5 minutes to allow retry
StateExpiry == 300000

\* what read returns when it does not return the record
Unknown == [state |-> "unknown", timestamp |-> 0]

NoFile == [kind |-> "missing", state |-> "", timestamp |-> 0]

\* a read that still returns a record exactly 5 minutes old
StillFreshInclusive(timestamp, now) == now - timestamp <= StateExpiry

\* BrowserState.read: Date.now() - data.timestamp < 300000
StillFresh(timestamp, now) == now - timestamp < StateExpiry

\* BrowserState.read: existsSync, JSON.parse (a throw is caught), then
\* data.timestamp && the age test; a timestamp of 0 or none is falsy
BrowserStateReadAt(f, now) ==
    IF f.kind = "missing" THEN Unknown
    ELSE IF f.kind = "garbage" THEN Unknown
    ELSE IF f.timestamp # 0 /\ StillFresh(f.timestamp, now)
         THEN [state |-> f.state, timestamp |-> f.timestamp]
         ELSE Unknown

\* BrowserState.write at the clock's time
BrowserStateWriteAt(s, now) ==
    [kind |-> "record", state |-> s, timestamp |-> now]

ReadIdle ==
    /\ bsFile = NoFile
    /\ bsNow = 1
    /\ bsTicks = 0
    /\ bsOut = [state |-> "not_read", timestamp |-> 0]
    /\ bsAt = [file |-> NoFile, now |-> 0]

\* a window writes its state
StateWritten(s) ==
    /\ bsFile' = BrowserStateWriteAt(s, bsNow)
    /\ UNCHANGED <<bsNow, bsTicks, bsOut, bsAt, besidesRead>>

\* a window clears the state
StateCleared ==
    /\ bsFile.kind # "missing"
    /\ bsFile' = NoFile
    /\ UNCHANGED <<bsNow, bsTicks, bsOut, bsAt, besidesRead>>

\* the file is left unparsable, or parsable without a timestamp
StateDamaged(k) ==
    /\ bsFile.kind = "record"
    /\ bsFile' = [kind |-> k, state |-> bsFile.state, timestamp |-> 0]
    /\ UNCHANGED <<bsNow, bsTicks, bsOut, bsAt, besidesRead>>

\* time passes: 1 ms, or 1 ms less than 5 minutes
ClockAdvances(d) ==
    /\ bsTicks < MaxTicks
    /\ bsTicks' = bsTicks + 1
    /\ bsNow' = bsNow + d
    /\ UNCHANGED <<bsFile, bsOut, bsAt, besidesRead>>

\* a window reads the state
StateRead ==
    /\ bsOut' = BrowserStateReadAt(bsFile, bsNow)
    /\ bsAt' = [file |-> bsFile, now |-> bsNow]
    /\ UNCHANGED <<bsFile, bsNow, bsTicks, besidesRead>>

ReadNext ==
    \/ \E s \in {"logging_in", "login_failed"} : StateWritten(s)
    \/ StateCleared
    \/ \E k \in {"garbage", "no_timestamp"} : StateDamaged(k)
    \/ \E d \in {1, StateExpiry - 1} : ClockAdvances(d)
    \/ StateRead

\* ------------------------------------------------------------ waitForLogin

\* what one poll of waitForLogin can see: a handle is missing, the browser is
\* disconnected, the sessionKey cookie is there or not, page.cookies threw a
\* closed-target error or some other error
PollSees ==
    {"no_handle", "disconnected", "cookie", "no_cookie", "closed_error",
     "other_error"}

\* a waitForLogin whose catch swallows the closed-target errors too
PollOutcomeIgnoresClosed(o) ==
    CASE o \in {"no_handle", "disconnected"} -> "cancelled"
      [] o = "cookie"                         -> "success"
      [] OTHER                                -> "waiting"

\* waitForLogin: what the body of the loop does with what the poll saw
PollOutcome(o) ==
    CASE o \in {"no_handle", "disconnected", "closed_error"} -> "cancelled"
      [] o = "cookie"                                         -> "success"
      [] OTHER                                                -> "waiting"

\* waitForLogin: the object it returns
WaitReturn(r) == [success |-> r = "success", cancelled |-> r = "cancelled"]

WaitIdle ==
    /\ wPolls = <<>>
    /\ wResult = "waiting"

\* one turn of the loop: sleep(pollIntervalMs), then the poll
Poll(o) ==
    /\ wResult = "waiting"
    /\ Len(wPolls) < MaxPolls
    /\ wPolls' = Append(wPolls, o)
    /\ wResult' = PollOutcome(o)
    /\ UNCHANGED besidesWait

\* the loop condition fails: Date.now() - startTime >= maxWaitMs
WaitTimesOut ==
    /\ wResult = "waiting"
    /\ Len(wPolls) = MaxPolls
    /\ wResult' = "timeout"
    /\ UNCHANGED <<wPolls, besidesWait>>

WaitNext ==
    \/ \E o \in PollSees : Poll(o)
    \/ WaitTimesOut

\* ------------------------------------------------------------ lockfile.lock

\* BROWSER_LOCK_OPTIONS and the timeouts of the work done under the lock, ms
LockStale     == 360000
LockRetries   == 90
RetryDelay    == 1000
LaunchTimeout == 60000
PageLoad      == 45000
LoginWait     == 300000

\* the clock of this part counts retry delays
StaleTicks  == LockStale \div RetryDelay
\* lockfile.lock refreshes the mtime of a held lock every stale / 2
UpdateTicks == StaleTicks \div 2
\* the longest an interactive login keeps the lock: the launch, the load of
\* the login page, the login wait
MaxHold     == (LaunchTimeout + PageLoad + LoginWait) \div RetryDelay

\* a holder whose lock is never refreshed
UpdateDueNever(heldFor) == FALSE

\* the holder's update timer fires
UpdateDue(heldFor) == heldFor % UpdateTicks = 0

\* a lock() that never finds a lock stale
IsStaleNever(age) == FALSE

\* lockfile.lock: mtime < Date.now() - stale
IsStale(age) == age > StaleTicks

\* a lock() that gives up with the first failed attempt
GivesUpAtOnce(failed) == failed > 0

\* lockfile.lock: the first attempt and 90 retries have failed
GivesUp(failed) == failed > LockRetries

LockIdle ==
    /\ lkOwner = NoOwner
    /\ lkAge = 0
    /\ lkSt = [i \in Instances |-> "idle"]
    /\ lkHandle = [i \in Instances |-> FALSE]
    /\ lkTries = [i \in Instances |-> 0]
    /\ lkDue = [i \in Instances |-> FALSE]
    /\ lkHeld = [i \in Instances |-> 0]
    /\ lkReclaimed = FALSE

\* acquireBrowserLock with the handle null: lockfile.lock is called and makes
\* its first attempt at once
LockCalled(i) ==
    /\ lkSt[i] = "idle"
    /\ ~lkHandle[i]
    /\ lkSt' = [lkSt EXCEPT ![i] = "trying"]
    /\ lkTries' = [lkTries EXCEPT ![i] = 0]
    /\ lkDue' = [lkDue EXCEPT ![i] = TRUE]
    /\ UNCHANGED <<lkOwner, lkAge, lkHandle, lkHeld, lkReclaimed, besidesLock>>

\* one attempt of lockfile.lock: the directory is made, or it exists and is
\* stale and is removed and made again, or the attempt fails; after the last
\* retry acquireBrowserLock throws Browser busy
LockAttempt(i) ==
    /\ lkSt[i] = "trying"
    /\ lkDue[i]
    /\ lkDue' = [lkDue EXCEPT ![i] = FALSE]
    /\ IF lkOwner = NoOwner \/ IsStale(lkAge)
       THEN /\ lkOwner' = i
            /\ lkAge' = 0
            /\ lkSt' = [lkSt EXCEPT ![i] = "holding"]
            /\ lkHandle' = [lkHandle EXCEPT ![i] = TRUE]
            /\ lkHeld' = [lkHeld EXCEPT ![i] = 0]
            /\ lkTries' = [lkTries EXCEPT ![i] = 0]
            /\ lkReclaimed' = (lkReclaimed \/ lkOwner # NoOwner)
       ELSE /\ lkTries' = [lkTries EXCEPT ![i] = lkTries[i] + 1]
            /\ lkSt' = [lkSt EXCEPT ![i] =
                          IF GivesUp(lkTries[i] + 1) THEN "busy" ELSE "trying"]
            /\ UNCHANGED <<lkOwner, lkAge, lkHandle, lkHeld, lkReclaimed>>
    /\ UNCHANGED besidesLock

\* the Browser-busy error has propagated, the fetch is over
LockBusyReturn(i) ==
    /\ lkSt[i] = "busy"
    /\ lkSt' = [lkSt EXCEPT ![i] = "done"]
    /\ lkTries' = [lkTries EXCEPT ![i] = 0]
    /\ UNCHANGED <<lkOwner, lkAge, lkHandle, lkDue, lkHeld, lkReclaimed,
                   besidesLock>>

\* releaseBrowserLockIfHeld: the directory is removed if it is still this
\* window's, the handle is nulled, the fetch is over
LockReleased(i) ==
    /\ lkSt[i] = "holding"
    /\ lkSt' = [lkSt EXCEPT ![i] = "done"]
    /\ lkHandle' = [lkHandle EXCEPT ![i] = FALSE]
    /\ lkHeld' = [lkHeld EXCEPT ![i] = 0]
    /\ lkOwner' = IF lkOwner = i THEN NoOwner ELSE lkOwner
    /\ lkAge' = IF lkOwner = i THEN 0 ELSE lkAge
    /\ UNCHANGED <<lkTries, lkDue, lkReclaimed, besidesLock>>

\* the extension host of a window dies: nothing of it runs any more, its
\* lock directory stays
LockHolderDies(i) ==
    /\ lkSt[i] # "dead"
    /\ \A j \in Instances \ {i} : lkSt[j] # "dead"
    /\ lkSt' = [lkSt EXCEPT ![i] = "dead"]
    /\ lkDue' = [lkDue EXCEPT ![i] = FALSE]
    /\ lkTries' = [lkTries EXCEPT ![i] = 0]
    /\ lkHeld' = [lkHeld EXCEPT ![i] = 0]
    /\ UNCHANGED <<lkOwner, lkAge, lkHandle, lkReclaimed, besidesLock>>

\* one retry delay passes: the pending retries become due, the directory
\* ages unless its live holder's update timer refreshes it (ages beyond the
\* stale time are not told apart); a window whose fetch is over can fetch
\* again, its fetches being at least a timer period apart
ClockTick ==
    /\ \A i \in Instances : ~lkDue[i] /\ lkSt[i] # "busy"
    /\ \A i \in Instances : lkSt[i] = "holding" => lkHeld[i] < MaxHold
    /\ lkHeld' = [i \in Instances |->
                    IF lkSt[i] = "holding" THEN lkHeld[i] + 1 ELSE lkHeld[i]]
    /\ lkDue' = [i \in Instances |-> lkSt[i] = "trying"]
    /\ lkAge' = IF lkOwner = NoOwner THEN 0
                ELSE IF lkSt[lkOwner] = "holding" /\ UpdateDue(lkHeld[lkOwner] + 1)
                THEN 0
                ELSE IF lkAge > StaleTicks THEN lkAge ELSE lkAge + 1
    /\ lkSt' = [i \in Instances |->
                  IF lkSt[i] = "done" THEN "idle" ELSE lkSt[i]]
    /\ UNCHANGED <<lkOwner, lkHandle, lkTries, lkReclaimed, besidesLock>>

LockNext ==
    \/ \E i \in Instances : LockCalled(i)
    \/ \E i \in Instances : LockAttempt(i)
    \/ \E i \in Instances : LockBusyReturn(i)
    \/ \E i \in Instances : LockReleased(i)
    \/ \E i \in Instances : LockHolderDies(i)
    \/ ClockTick

\* the timers of a live window fire and time passes; a window's work under
\* the lock ends within its timeouts; every window fetches again and again
LockFairness ==
    /\ SF_vars(ClockTick)
    /\ \A i \in Instances :
          /\ WF_vars(LockCalled(i))
          /\ WF_vars(LockAttempt(i))
          /\ WF_vars(LockBusyReturn(i))
          /\ WF_vars(LockReleased(i))

\* ------------------------------------------------------------ setupRequestInterception

\* the endpoint shapes of API_ENDPOINTS
Shapes == {"usage", "prepaidCredits", "overageSpendLimit"}

\* requests a page can make: two URLs of each shape (two organizations, two
\* query strings), and one that matches no shape
RequestUrls ==
    {[shape |-> sh, n |-> k] : sh \in Shapes \cup {"other"}, k \in {1, 2}}

RequestHeaders == {"headers1", "headers2"}

\* matchesEndpoint(url, API_ENDPOINTS[shape])
matchesEndpoint(url, shape) == url.shape = shape

\* no URL captured
NoUrl == [shape |-> "null", n |-> 0]

NoRequest == [url |-> NoUrl, headers |-> "null"]

CaptureIdle ==
    /\ apiEndpoint = NoUrl
    /\ apiHeaders = "null"
    /\ creditsEndpoint = NoUrl
    /\ overageEndpoint = NoUrl
    /\ firstSeen = [sh \in Shapes |-> NoRequest]

\* page.on('request'): the handler body
RequestSeen(url, headers) ==
    /\ IF matchesEndpoint(url, "usage")
       THEN /\ apiEndpoint' = url
            /\ apiHeaders' = headers
       ELSE UNCHANGED <<apiEndpoint, apiHeaders>>
    /\ creditsEndpoint' = IF matchesEndpoint(url, "prepaidCredits")
                          THEN url ELSE creditsEndpoint
    /\ overageEndpoint' = IF matchesEndpoint(url, "overageSpendLimit")
                          THEN url ELSE overageEndpoint
    /\ firstSeen' = [sh \in Shapes |->
                       IF matchesEndpoint(url, sh) /\ firstSeen[sh] = NoRequest
                       THEN [url |-> url, headers |-> headers]
                       ELSE firstSeen[sh]]
    /\ UNCHANGED besidesCapture

\* reset(): the captured endpoints are forgotten
CaptureReset ==
    /\ firstSeen # [sh \in Shapes |-> NoRequest]
    /\ apiEndpoint' = NoUrl
    /\ apiHeaders' = "null"
    /\ creditsEndpoint' = NoUrl
    /\ overageEndpoint' = NoUrl
    /\ firstSeen' = [sh \in Shapes |-> NoRequest]
    /\ UNCHANGED besidesCapture

CaptureNext ==
    \/ \E url \in RequestUrls : \E headers \in RequestHeaders :
          RequestSeen(url, headers)
    \/ CaptureReset

\* ------------------------------------------------------------ fetchUsageData, step by step

\* how a direct call of an endpoint can go: a 2xx answer, another answer,
\* page.evaluate throws
CallOutcomes == {"ok", "non2xx", "throws"}

NoArgs == [credits |-> "none", overage |-> "none"]

\* a fetchUsageData whose inner catch rethrows
OnApiErrorThrow(e) == "done"

\* catch (apiError): logged, execution goes on to the HTML scraping
OnApiError(e) == "scrape"

\* an optional call whose failure is taken for a failure of the API path
OptionalDataStrict(captured, outcome) ==
    IF ~captured THEN "null" ELSE IF outcome = "ok" THEN "data" ELSE "fail"

\* creditsData / overageData after the optional call: null unless the endpoint
\* was captured and answered 2xx; a throw is caught and logged
OptionalData(captured, outcome) ==
    IF captured /\ outcome = "ok" THEN "data" ELSE "null"

FetchDataIdle ==
    /\ fdPc = "idle"
    /\ fdLoaded = "none"
    /\ fdCaptured = [sh \in Shapes |-> FALSE]
    /\ fdCalls = [sh \in Shapes |-> "none"]
    /\ fdArgs = NoArgs
    /\ fdNorm = "none"
    /\ fdScrape = "none"
    /\ fdOut = "pending"

\* fetchUsageData up to the test of this.apiEndpoint: page.goto of the usage
\* page, during which the handler captures what the page requests, the sleep
FetchDataGoto(loaded, captured) ==
    /\ fdPc = "idle"
    /\ fdCalls' = [sh \in Shapes |-> "none"]
    /\ fdArgs' = NoArgs
    /\ fdNorm' = "none"
    /\ fdScrape' = "none"
    /\ fdCaptured' = captured
    /\ fdLoaded' = loaded
    /\ CASE loaded = "ok" ->
              /\ fdPc' = IF captured["usage"] THEN "usage" ELSE "scrape"
              /\ fdOut' = "pending"
         [] loaded = "timeout" ->
              /\ fdPc' = "done"
              /\ fdOut' = "PAGE_TIMEOUT"
         [] OTHER ->
              /\ fdPc' = "done"
              /\ fdOut' = "error"
    /\ UNCHANGED besidesFetchData

\* the direct call of the usage endpoint
FetchDataUsage(outcome) ==
    /\ fdPc = "usage"
    /\ fdCalls' = [fdCalls EXCEPT !["usage"] = outcome]
    /\ fdPc' = IF outcome = "ok" THEN "credits" ELSE OnApiError(outcome)
    /\ fdOut' = IF outcome # "ok" /\ OnApiError(outcome) = "done"
                THEN "error" ELSE fdOut
    /\ UNCHANGED <<fdLoaded, fdCaptured, fdArgs, fdNorm, fdScrape, besidesFetchData>>

\* the optional call of the credits or of the overage endpoint
FetchDataOptional(sh, arg, outcome) ==
    LET made == IF fdCaptured[sh] THEN outcome ELSE "none"
        data == OptionalData(fdCaptured[sh], outcome)
    IN
    /\ fdCalls' = [fdCalls EXCEPT ![sh] = made]
    /\ IF data = "fail"
       THEN /\ fdPc' = OnApiError(outcome)
            /\ UNCHANGED fdArgs
       ELSE /\ fdPc' = IF sh = "prepaidCredits" THEN "overage" ELSE "normalize"
            /\ fdArgs' = [fdArgs EXCEPT ![arg] = data]
    /\ UNCHANGED <<fdLoaded, fdCaptured, fdNorm, fdScrape, fdOut, besidesFetchData>>

FetchDataCredits(outcome) ==
    /\ fdPc = "credits"
    /\ FetchDataOptional("prepaidCredits", "credits", outcome)

FetchDataOverage(outcome) ==
    /\ fdPc = "overage"
    /\ FetchDataOptional("overageSpendLimit", "overage", outcome)

\* return this.processApiResponse(response, creditsData, overageData): the
\* snapshot, or it throws Failed to process inside the inner try
FetchDataNormalize(outcome) ==
    /\ fdPc = "normalize"
    /\ fdNorm' = outcome
    /\ IF outcome = "ok"
       THEN /\ fdPc' = "done"
            /\ fdOut' = "api_snapshot"
       ELSE /\ fdPc' = OnApiError(outcome)
            /\ fdOut' = IF OnApiError(outcome) = "done" THEN "error" ELSE fdOut
    /\ UNCHANGED <<fdLoaded, fdCaptured, fdCalls, fdArgs, fdScrape, besidesFetchData>>

\* the HTML scraping: a percentage is found in the page text or not, or
\* page.evaluate throws
FetchDataScrape(outcome) ==
    /\ fdPc = "scrape"
    /\ fdScrape' = outcome
    /\ fdPc' = "done"
    /\ fdOut' = CASE outcome = "found"     -> "scrape_snapshot"
                  [] outcome = "not_found" -> "LAYOUT_CHANGED"
                  [] OTHER                 -> "error"
    /\ UNCHANGED <<fdLoaded, fdCaptured, fdCalls, fdArgs, fdNorm, besidesFetchData>>

\* fetchUsageData has returned or thrown
FetchDataOver ==
    /\ fdPc = "done"
    /\ fdPc' = "idle"
    /\ UNCHANGED <<fdLoaded, fdCaptured, fdCalls, fdArgs, fdNorm, fdScrape, fdOut,
                   besidesFetchData>>

FetchDataNext ==
    \/ \E loaded \in {"ok", "timeout", "error"} :
          \E captured \in [Shapes -> BOOLEAN] : FetchDataGoto(loaded, captured)
    \/ \E outcome \in CallOutcomes : FetchDataUsage(outcome)
    \/ \E outcome \in CallOutcomes : FetchDataCredits(outcome)
    \/ \E outcome \in CallOutcomes : FetchDataOverage(outcome)
    \/ \E outcome \in {"ok", "throws"} : FetchDataNormalize(outcome)
    \/ \E outcome \in {"found", "not_found", "throws"} : FetchDataScrape(outcome)
    \/ FetchDataOver

\* ------------------------------------------------------------ the scraper's handles

NoBrowser == 0

HandlesIdle ==
    /\ hBrowser = NoBrowser
    /\ hPage = FALSE
    /\ hInit = FALSE
    /\ hPc = [c \in Slots |-> "idle"]
    /\ hOf = [c \in Slots |-> NoBrowser]
    /\ hLive = {}
    /\ hLaunched = 0

\* this.browser = null; this.page = null; this.isInitialized = false
HandlesDropped ==
    /\ hBrowser' = NoBrowser
    /\ hPage' = FALSE
    /\ hInit' = FALSE

\* initialize is called: with a browser it awaits browser.version(),
\* otherwise it goes on to the lock, the sleep and puppeteer.launch
InitializeCalled(c) ==
    /\ hPc[c] = "idle"
    /\ IF hInit /\ hBrowser # NoBrowser
       THEN /\ hPc' = [hPc EXCEPT ![c] = "iVersion"]
            /\ hOf' = [hOf EXCEPT ![c] = hBrowser]
       ELSE /\ hPc' = [hPc EXCEPT ![c] = "iLaunch"]
            /\ hOf' = [hOf EXCEPT ![c] = NoBrowser]
    /\ UNCHANGED <<hBrowser, hPage, hInit, hLive, hLaunched, besidesHandles>>

\* browser.version() answers (initialize returns) or throws (the handles
\* are dropped and a browser is launched)
VersionAnswered(c) ==
    /\ hPc[c] = "iVersion"
    /\ IF hOf[c] \in hLive
       THEN /\ hPc' = [hPc EXCEPT ![c] = "idle"]
            /\ UNCHANGED <<hBrowser, hPage, hInit>>
       ELSE /\ hPc' = [hPc EXCEPT ![c] = "iLaunch"]
            /\ HandlesDropped
    /\ UNCHANGED <<hOf, hLive, hLaunched, besidesHandles>>

\* this.browser = await puppeteer.launch(...), in initialize and in
\* forceOpenBrowser; newPage is called at once. The launch fails ("already
\* running") while another browser runs on the session directory.
\* initialize sleeps 1 s before it launches, so a close() that was in its
\* own 1 s sleep is over first; forceOpenBrowser launches without a sleep.
LaunchResolved(c, ok) ==
    /\ hPc[c] \in {"iLaunch", "fLaunch"}
    /\ hPc[c] = "iLaunch" => \A d \in Slots : hPc[d] # "cSleep"
    /\ IF ok
       THEN /\ hLive = {}
            /\ hLaunched < MaxBrowsers
            /\ hLaunched' = hLaunched + 1
            /\ hLive' = hLive \cup {hLaunched'}
            /\ hBrowser' = hLaunched'
            /\ hOf' = [hOf EXCEPT ![c] = hLaunched']
            /\ hPc' = [hPc EXCEPT ![c] = IF hPc[c] = "iLaunch" THEN "iNewPage"
                                                               ELSE "fNewPage"]
       ELSE /\ hPc' = [hPc EXCEPT ![c] = "idle"]
            /\ UNCHANGED <<hBrowser, hOf, hLive, hLaunched>>
    /\ UNCHANGED <<hPage, hInit, besidesHandles>>

\* this.page = await this.browser.newPage(): the browser that was asked
\* answers while its process runs; setUserAgent is called at once
NewPageResolved(c) ==
    /\ hPc[c] \in {"iNewPage", "fNewPage"}
    /\ IF hOf[c] \in hLive
       THEN /\ hPage' = TRUE
            /\ hPc' = [hPc EXCEPT ![c] = IF hPc[c] = "iNewPage" THEN "iSetup"
                                                                ELSE "fSetup"]
       ELSE /\ hPc' = [hPc EXCEPT ![c] = "idle"]
            /\ UNCHANGED hPage
    /\ UNCHANGED <<hBrowser, hInit, hOf, hLive, hLaunched, besidesHandles>>

\* setUserAgent and setupRequestInterception are over:
\* this.isInitialized = true; forceOpenBrowser goes on to page.goto
SetupResolved(c) ==
    /\ hPc[c] \in {"iSetup", "fSetup"}
    /\ IF hOf[c] \in hLive
       THEN /\ hInit' = TRUE
            /\ hPc' = [hPc EXCEPT ![c] = IF hPc[c] = "iSetup" THEN "idle"
                                                              ELSE "fGoto"]
       ELSE /\ hPc' = [hPc EXCEPT ![c] = "idle"]
            /\ UNCHANGED hInit
    /\ UNCHANGED <<hBrowser, hPage, hOf, hLive, hLaunched, besidesHandles>>

\* forceOpenBrowser: page.goto of the login page is over
GotoResolved(c) ==
    /\ hPc[c] = "fGoto"
    /\ hPc' = [hPc EXCEPT ![c] = "idle"]
    /\ UNCHANGED <<hBrowser, hPage, hInit, hOf, hLive, hLaunched, besidesHandles>>

\* close() is called with a browser: it awaits browser.close() for 5 s
CloseCalled(c) ==
    /\ hPc[c] = "idle"
    /\ hBrowser # NoBrowser
    /\ hPc' = [hPc EXCEPT ![c] = "cClosing"]
    /\ hOf' = [hOf EXCEPT ![c] = hBrowser]
    /\ UNCHANGED <<hBrowser, hPage, hInit, hLive, hLaunched, besidesHandles>>

\* close(): the 5 s are over, the process is killed, close() sleeps 1 s
CloseTimedOut(c) ==
    /\ hPc[c] = "cClosing"
    /\ hLive' = hLive \ {hOf[c]}
    /\ hPc' = [hPc EXCEPT ![c] = "cSleep"]
    /\ UNCHANGED <<hBrowser, hPage, hInit, hOf, hLaunched, besidesHandles>>

\* close(): browser.close() answered in time, or the sleep after the kill
\* is over: the handles are dropped
CloseResolved(c) ==
    /\ hPc[c] \in {"cClosing", "cSleep"}
    /\ hLive' = hLive \ {hOf[c]}
    /\ HandlesDropped
    /\ hPc' = [hPc EXCEPT ![c] = "idle"]
    /\ UNCHANGED <<hOf, hLaunched, besidesHandles>>

\* forceOpenBrowser is called: with a browser it awaits its close first
ForceOpenCalled(c) ==
    /\ hPc[c] = "idle"
    /\ IF hBrowser # NoBrowser
       THEN /\ hPc' = [hPc EXCEPT ![c] = "fClosing"]
            /\ hOf' = [hOf EXCEPT ![c] = hBrowser]
       ELSE /\ hPc' = [hPc EXCEPT ![c] = "fLaunch"]
            /\ hOf' = [hOf EXCEPT ![c] = NoBrowser]
    /\ UNCHANGED <<hBrowser, hPage, hInit, hLive, hLaunched, besidesHandles>>

\* forceOpenBrowser's teardown: the old browser is closed or its close
\* threw (ignored), the handles are dropped, the launch is started
ForceOpenTornDown(c) ==
    /\ hPc[c] = "fClosing"
    /\ hLive' = hLive \ {hOf[c]}
    /\ HandlesDropped
    /\ hPc' = [hPc EXCEPT ![c] = "fLaunch"]
    /\ UNCHANGED <<hOf, hLaunched, besidesHandles>>

HandlesNext ==
    \/ \E c \in Slots : InitializeCalled(c)
    \/ \E c \in Slots : VersionAnswered(c)
    \/ \E c \in Slots : \E ok \in BOOLEAN : LaunchResolved(c, ok)
    \/ \E c \in Slots : NewPageResolved(c)
    \/ \E c \in Slots : SetupResolved(c)
    \/ \E c \in Slots : GotoResolved(c)
    \/ \E c \in Slots : CloseCalled(c)
    \/ \E c \in Slots : CloseTimedOut(c)
    \/ \E c \in Slots : CloseResolved(c)
    \/ \E c \in Slots : ForceOpenCalled(c)
    \/ \E c \in Slots : ForceOpenTornDown(c)

\* ------------------------------------------------------------ a cycle's error report

\* an error message is the sequence of its parts; null is NoMessage
NoMessage == <<>>

\* String.prototype.includes for the parts the code looks for
Includes(m, part) == \E k \in 1..Len(m) : m[k] = part

\* the messages of the errors thrown on the way
Thrown ==
    [chromeNotFound    |-> <<"CHROME_NOT_FOUND">>,
     alreadyRunning    |-> <<"Failed to launch the browser process: the browser is ", "already running", " for the session directory">>,
     spawnFailed       |-> <<"spawn EACCES">>,
     navigationTimeout |-> <<"Navigation ", "timeout", " of 45000 ms exceeded">>,
     loginInProgress   |-> <<"LOGIN_IN_PROGRESS">>,
     loginFailedShared |-> <<"LOGIN_FAILED_SHARED">>,
     loginCancelled    |-> <<"LOGIN_CANCELLED">>,
     loginTimeout      |-> <<"LOGIN_TIMEOUT">>,
     usagePageFailed   |-> <<"Usage page took too long to load. Please try again.">>]

\* initialize's catch
InitializeCatch(m) ==
    IF Includes(m, "already running")
    THEN <<"Browser session is locked by another process. Please close all Chrome/Edge windows and try again, or restart VSCode.">>
    ELSE <<"Failed to launch browser: ">> \o m \o <<". Make sure Chromium is installed.">>

\* forceOpenBrowser's catch, and openLoginBrowser's throw of result.message
ForceOpenCatch(m) == <<"Failed to open browser: ">> \o m

\* ensureLoggedIn's catch
EnsureLoggedInCatch(m) ==
    IF Includes(m, "timeout")
    THEN <<"Failed to load Claude.ai. Please check your internet connection.">>
    ELSE m

ChromeRequired == <<"Chromium-based browser required. Install Chrome, Chromium, Brave, or Edge to fetch Claude.ai usage stats.">>

\* fetchUsage's catch: the webError it returns
FetchUsageCatch(m) ==
    IF m = Thrown.chromeNotFound THEN ChromeRequired
    ELSE IF m = Thrown.loginCancelled
    THEN <<"Login cancelled", ". Running in ", "token-only mode", ". Click status bar to retry login.">>
    ELSE IF m = Thrown.loginTimeout THEN <<"Login timed out. Click status bar to retry.">>
    ELSE m

ReportIdle ==
    /\ rpPc = "idle"
    /\ rpManual = FALSE
    /\ rpSession = FALSE
    /\ rpThrown = NoMessage
    /\ rpCause = "none"
    /\ rpWebError = NoMessage
    /\ rpLoginCancelled = FALSE
    /\ rpTokenError = FALSE
    /\ rpBar = "plain"
    /\ rpShown = NoMessage

\* an error is thrown inside fetchUsage's try
ReportThrow(m, cause) ==
    /\ rpThrown' = m
    /\ rpCause' = cause
    /\ rpPc' = "catch"

\* performFetch reaches fetchUsage: startSpinner, then initialize when
\* session files exist
ReportFetchStarts(manual, hasSession) ==
    /\ rpPc \in {"idle", "over"}
    /\ manual \/ hasSession
    /\ rpManual' = manual
    /\ rpSession' = hasSession
    /\ rpPc' = IF hasSession THEN "initialize" ELSE "ensureLoggedIn"
    /\ rpThrown' = NoMessage
    /\ rpCause' = "none"
    /\ rpWebError' = NoMessage
    /\ rpLoginCancelled' = FALSE
    /\ rpTokenError' = FALSE
    /\ rpShown' = NoMessage
    /\ UNCHANGED <<rpBar, besidesReport>>

\* initialize: findChrome finds none, the launch throws, or the browser is up
ReportInitialize(chrome, launch) ==
    /\ rpPc = "initialize"
    /\ IF ~chrome THEN ReportThrow(InitializeCatch(Thrown.chromeNotFound), "noChrome")
       ELSE IF launch # NoMessage THEN ReportThrow(InitializeCatch(launch), "other")
       ELSE /\ rpPc' = "ensureLoggedIn"
            /\ UNCHANGED <<rpThrown, rpCause>>
    /\ UNCHANGED <<rpManual, rpSession, rpWebError, rpLoginCancelled,
                   rpTokenError, rpBar, rpShown, besidesReport>>

\* ensureLoggedIn: the shared state, then the session validation
ReportEnsureLoggedIn(shared, valid, goto) ==
    /\ rpPc = "ensureLoggedIn"
    /\ IF shared = "logging_in" THEN ReportThrow(Thrown.loginInProgress, "loginInProgress")
       ELSE IF shared = "login_failed" THEN ReportThrow(Thrown.loginFailedShared, "other")
       ELSE IF ~rpSession \/ ~valid
       THEN /\ rpPc' = "openLoginBrowser"
            /\ UNCHANGED <<rpThrown, rpCause>>
       ELSE IF goto # NoMessage THEN ReportThrow(EnsureLoggedInCatch(goto), "other")
       ELSE /\ rpPc' = "fetchUsageData"
            /\ UNCHANGED <<rpThrown, rpCause>>
    /\ UNCHANGED <<rpManual, rpSession, rpWebError, rpLoginCancelled,
                   rpTokenError, rpBar, rpShown, besidesReport>>

\* openLoginBrowser: forceOpenBrowser, then the wait for the login
ReportOpenLoginBrowser(chrome, launch, login) ==
    /\ rpPc = "openLoginBrowser"
    /\ IF ~chrome
       THEN ReportThrow(EnsureLoggedInCatch(ForceOpenCatch(Thrown.chromeNotFound)), "noChrome")
       ELSE IF launch # NoMessage
       THEN ReportThrow(EnsureLoggedInCatch(ForceOpenCatch(launch)), "other")
       ELSE IF login = "cancelled"
       THEN ReportThrow(EnsureLoggedInCatch(Thrown.loginCancelled), "other")
       ELSE IF login = "timeout"
       THEN ReportThrow(EnsureLoggedInCatch(Thrown.loginTimeout), "other")
       ELSE /\ rpPc' = "fetchUsageData"
            /\ UNCHANGED <<rpThrown, rpCause>>
    /\ UNCHANGED <<rpManual, rpSession, rpWebError, rpLoginCancelled,
                   rpTokenError, rpBar, rpShown, besidesReport>>

\* fetchUsageData returns or throws; fetchUsage returns webError null
ReportFetchUsageData(ok) ==
    /\ rpPc = "fetchUsageData"
    /\ IF ok
       THEN /\ rpPc' = "finally"
            /\ UNCHANGED <<rpThrown, rpCause>>
       ELSE ReportThrow(Thrown.usagePageFailed, "other")
    /\ UNCHANGED <<rpManual, rpSession, rpWebError, rpLoginCancelled,
                   rpTokenError, rpBar, rpShown, besidesReport>>

\* fetchUsage's catch maps the error to its result
ReportFetchUsageCatch ==
    /\ rpPc = "catch"
    /\ rpWebError' = FetchUsageCatch(rpThrown)
    /\ rpLoginCancelled' = (rpThrown = Thrown.loginCancelled)
    /\ rpPc' = "finally"
    /\ UNCHANGED <<rpManual, rpSession, rpThrown, rpCause, rpTokenError,
                   rpBar, rpShown, besidesReport>>

\* performFetch: the token data check, stopSpinner in the finally, and the
\* fetchNow command's message when the fetch was a manual one
ReportPerformFetchEnds(noTokens) ==
    /\ rpPc = "finally"
    /\ rpTokenError' = noTokens
    \* stopSpinner: the mark it puts on the status bar
    /\ rpBar' = IF rpWebError # NoMessage /\ noTokens THEN "error"
                ELSE IF rpWebError # NoMessage THEN "warning"
                ELSE "plain"
    \* the fetchNow command: what showErrorMessage displays
    /\ rpShown' = IF rpManual /\ rpWebError # NoMessage /\ ~rpLoginCancelled
                  THEN <<"Failed to fetch Claude usage: ">> \o rpWebError
                  ELSE NoMessage
    /\ rpPc' = "over"
    /\ UNCHANGED <<rpManual, rpSession, rpThrown, rpCause, rpWebError,
                   rpLoginCancelled, besidesReport>>

ReportNext ==
    \/ \E manual, hasSession \in BOOLEAN : ReportFetchStarts(manual, hasSession)
    \/ \E chrome \in BOOLEAN : \E launch \in {NoMessage, Thrown.alreadyRunning, Thrown.spawnFailed} :
          ReportInitialize(chrome, launch)
    \/ \E shared \in {"none", "logging_in", "login_failed"} : \E valid \in BOOLEAN :
       \E goto \in {NoMessage, Thrown.navigationTimeout} :
          ReportEnsureLoggedIn(shared, valid, goto)
    \/ \E chrome \in BOOLEAN : \E launch \in {NoMessage, Thrown.alreadyRunning, Thrown.spawnFailed} :
       \E login \in {"success", "cancelled", "timeout"} :
          ReportOpenLoginBrowser(chrome, launch, login)
    \/ \E ok \in BOOLEAN : ReportFetchUsageData(ok)
    \/ ReportFetchUsageCatch
    \/ \E noTokens \in BOOLEAN : ReportPerformFetchEnds(noTokens)

\* ------------------------------------------------------------ reset times

MsPerMinute == 60000
MsPerHour   == 3600000
HoursPerDay == 24

\* a string is the sequence of its characters
DigitChars  == <<"0", "1", "2", "3", "4", "5", "6", "7", "8", "9">>

UnknownText == <<"U", "n", "k", "n", "o", "w", "n">>
SoonText    == <<"S", "o", "o", "n">>

\* `${n}` of a non-negative integer
RECURSIVE Digits(_)
Digits(n) == IF n < 10 THEN <<DigitChars[n + 1]>>
             ELSE Digits(n \div 10) \o <<DigitChars[(n % 10) + 1]>>

\* the timestamps of the API: "missing", an "iso" string that Date parses
\* to ms, or an "unparsable" string
Timestamp(kind, ms) == [kind |-> kind, ms |-> ms]

\* the test of calculateResetTime's days branch, from a whole day on
ADayOrMore(hours) == ~hours.nan /\ hours.v > HoursPerDay - 1

\* the test of calculateResetTime's days branch: hours > 24
MoreThanADay(hours) == ~hours.nan /\ hours.v > HoursPerDay

\* a JavaScript number is [nan, v]: NaN or the integer v; arithmetic on
\* NaN gives NaN, a comparison with NaN is false, `${NaN}` is "NaN"
calculateResetTime(isoTimestamp, now) ==
    LET NaN              == [nan |-> TRUE, v |-> 0]
        Num(n)           == [nan |-> FALSE, v |-> n]
        JsToString(x)    == IF x.nan THEN <<"N", "a", "N">> ELSE Digits(x.v)
        JsMinus(x, y)    == IF x.nan \/ y.nan THEN NaN ELSE Num(x.v - y.v)
        JsFloorDiv(x, k) == IF x.nan THEN NaN ELSE Num(x.v \div k)
        JsMod(x, k)      == IF x.nan THEN NaN ELSE Num(x.v % k)
        JsGt(x, k)       == ~x.nan /\ x.v > k
        JsLeq(x, k)      == ~x.nan /\ x.v <= k
        \* new Date(isoTimestamp), as the number the subtraction sees
        resetDate == IF isoTimestamp.kind = "iso" THEN Num(isoTimestamp.ms) ELSE NaN
        diffMs    == JsMinus(resetDate, Num(now))
        hours     == JsFloorDiv(diffMs, MsPerHour)
        minutes   == JsFloorDiv(JsMod(diffMs, MsPerHour), MsPerMinute)
    IN  IF isoTimestamp.kind = "missing" THEN UnknownText
        ELSE IF JsLeq(diffMs, 0) THEN SoonText
        ELSE IF MoreThanADay(hours)
        THEN JsToString(JsFloorDiv(hours, HoursPerDay)) \o <<"d", " ">>
             \o JsToString(JsMod(hours, HoursPerDay)) \o <<"h">>
        ELSE IF JsGt(hours, 0)
        THEN JsToString(hours) \o <<"h", " ">> \o JsToString(minutes) \o <<"m">>
        ELSE JsToString(minutes) \o <<"m">>

\* resetTime.match(/(\d+)u/): the digits of the leftmost run of digits that
\* the unit letter follows, or the empty sequence for null
Match(str, unit) ==
    LET IsDigit(ch) == \E k \in 1..10 : DigitChars[k] = ch
        ends == {p \in 2..Len(str) : str[p] = unit /\ IsDigit(str[p - 1])}
    IN  IF ends = {} THEN <<>>
        ELSE LET p == CHOOSE q \in ends : \A r \in ends : q <= r
                 i == CHOOSE j \in 1..(p - 1) :
                         /\ \A k \in j..(p - 1) : IsDigit(str[k])
                         /\ j = 1 \/ ~IsDigit(str[j - 1])
             IN  SubSeq(str, i, p - 1)

\* a day part counted as hours
DaysAsHours(n) == n * HoursPerDay

\* parseInt(days[1]) * 24 * 60
DaysAsMinutes(n) == n * HoursPerDay * 60

\* calculateResetClockTime: the minutes until the reset
TotalMinutes(resetTime) ==
    LET DigitValue(ch) == (CHOOSE k \in 1..10 : DigitChars[k] = ch) - 1
        RECURSIVE parseInt(_)
        parseInt(digits) ==
            IF Len(digits) = 1 THEN DigitValue(digits[1])
            ELSE 10 * parseInt(SubSeq(digits, 1, Len(digits) - 1))
                 + DigitValue(digits[Len(digits)])
        days    == Match(resetTime, "d")
        hours   == Match(resetTime, "h")
        minutes == Match(resetTime, "m")
    IN  (IF days # <<>> THEN DaysAsMinutes(parseInt(days)) ELSE 0)
        + (IF hours # <<>> THEN parseInt(hours) * 60 ELSE 0)
        + (IF minutes # <<>> THEN parseInt(minutes) ELSE 0)

\* the units a relative string shows
Units(str) == {u \in {"d", "h", "m"} : Match(str, u) # <<>>}

\* "Resets in ..." as the usage page words it: optional day, hour and
\* minute parts (a part below 0 is absent)
RelativeText(d, h, m) ==
    LET Part(n, unit) == IF n < 0 THEN <<>> ELSE Digits(n) \o <<unit>>
        Joined(x, y)  == IF x = <<>> THEN y ELSE IF y = <<>> THEN x
                         ELSE x \o <<" ">> \o y
    IN  Joined(Joined(Part(d, "d"), Part(h, "h")), Part(m, "m"))

ResetIdle ==
    /\ rtPc = "idle"
    /\ rtNow = 0
    /\ rtIso = Timestamp("missing", 0)
    /\ rtRel = <<>>
    /\ rtTotal = 0
    /\ rtAgain = <<>>

\* processApiResponse: resetTime = calculateResetTime(resetsAt)
ResetTimeRendered(now, ts) ==
    /\ rtPc = "idle"
    /\ rtNow' = now
    /\ rtIso' = ts
    /\ rtRel' = calculateResetTime(ts, now)
    /\ rtPc' = "rendered"
    /\ rtTotal' = 0
    /\ rtAgain' = <<>>
    /\ UNCHANGED besidesReset

\* the scraping fallback: resetTime is the text after "Resets in"
ResetTimeScraped(now, d, h, m) ==
    /\ rtPc = "idle"
    /\ rtNow' = now
    /\ rtIso' = Timestamp("missing", 0)
    /\ rtRel' = RelativeText(d, h, m)
    /\ rtPc' = "scraped"
    /\ rtTotal' = 0
    /\ rtAgain' = <<>>
    /\ UNCHANGED besidesReset

\* the status bar: calculateResetClockTime(usageData.resetTime)
ClockTimeComputed ==
    /\ rtPc \in {"rendered", "scraped"}
    /\ rtTotal' = TotalMinutes(rtRel)
    /\ rtPc' = "parsed"
    /\ UNCHANGED <<rtNow, rtIso, rtRel, rtAgain, besidesReset>>

\* the reset totalMinutes ahead, rendered by calculateResetTime
RenderedAgain ==
    /\ rtPc = "parsed"
    /\ rtAgain' = calculateResetTime(Timestamp("iso", rtNow + rtTotal * MsPerMinute), rtNow)
    /\ rtPc' = "again"
    /\ UNCHANGED <<rtNow, rtIso, rtRel, rtTotal, besidesReset>>

\* the next fetch replaces usageData
UsageDataReplaced ==
    /\ rtPc = "again"
    /\ rtPc' = "idle"
    /\ rtNow' = 0
    /\ rtIso' = Timestamp("missing", 0)
    /\ rtRel' = <<>>
    /\ rtTotal' = 0
    /\ rtAgain' = <<>>
    /\ UNCHANGED besidesReset

ResetNext ==
    LET \* the clock values, the timestamps and the scraped parts tried
        Nows == {0, 1000}
        MinutesAhead == (0 - 2)..((MaxDaysAhead + 1) * HoursPerDay * 60 - 1)
        Timestamps(now) ==
            {Timestamp("missing", 0), Timestamp("unparsable", 0)}
            \cup {Timestamp("iso", now + D * MsPerMinute + part) :
                     D \in MinutesAhead, part \in {0, MsPerMinute \div 2}}
        PartDays    == (0 - 1)..MaxDaysAhead
        PartHours   == {0 - 1, 0, 1, 5, HoursPerDay - 1, HoursPerDay, HoursPerDay + 2}
        PartMinutes == {0 - 1, 0, 1, 30, 59, 90}
    IN  \/ \E now \in Nows : \E ts \in Timestamps(now) : ResetTimeRendered(now, ts)
        \/ \E now \in Nows : \E d \in PartDays, h \in PartHours, m \in PartMinutes :
              ResetTimeScraped(now, d, h, m)
        \/ ClockTimeComputed
        \/ RenderedAgain
        \/ UsageDataReplaced

\* ------------------------------------------------------------ the lock handle

ReleaseIdle ==
    /\ rlHandle = [i \in Instances |-> FALSE]
    /\ rlFile = NoOwner
    /\ rlReleased = [i \in Instances |-> FALSE]
    /\ rlLast = [i \in Instances |-> "none"]

\* acquireBrowserLock up to its await: the shortcut while the handle is set,
\* otherwise lockfile.lock is called
AcquireBrowserLockCalled(i) ==
    /\ rlLast[i] \notin {"locking", "releasing"}
    /\ rlLast' = [rlLast EXCEPT ![i] =
                    IF rlHandle[i] THEN "already_holding" ELSE "locking"]
    /\ UNCHANGED <<rlHandle, rlFile, rlReleased, besidesRelease>>

\* lockfile.lock resolves with the release function or, another window's
\* lock being there to the last retry, rejects and Browser busy is thrown
LockResolved(i) ==
    /\ rlLast[i] = "locking"
    /\ IF rlFile = NoOwner
       THEN /\ rlFile' = i
            /\ rlHandle' = [rlHandle EXCEPT ![i] = TRUE]
            /\ rlReleased' = [rlReleased EXCEPT ![i] = FALSE]
            /\ rlLast' = [rlLast EXCEPT ![i] = "acquired"]
       ELSE /\ rlLast' = [rlLast EXCEPT ![i] = "busy"]
            /\ UNCHANGED <<rlHandle, rlFile, rlReleased>>
    /\ UNCHANGED besidesRelease

\* BROWSER_LOCK_OPTIONS.onCompromised: lockfile could not refresh the lock of
\* the window, or found it taken over; it marks the lock released, the
\* callback only warns, and the lock file is no longer this window's
OnCompromised(i) ==
    /\ rlHandle[i]
    /\ ~rlReleased[i]
    /\ rlReleased' = [rlReleased EXCEPT ![i] = TRUE]
    /\ rlFile' = IF rlFile = i THEN NoOwner ELSE rlFile
    /\ UNCHANGED <<rlHandle, rlLast, besidesRelease>>

\* releaseBrowserLockIfHeld up to its await: nothing to do without a handle,
\* otherwise this.releaseBrowserLock() is called
ReleaseBrowserLockIfHeldCalled(i) ==
    /\ rlLast[i] \notin {"locking", "releasing"}
    /\ rlLast' = [rlLast EXCEPT ![i] =
                    IF rlHandle[i] THEN "releasing" ELSE "released"]
    /\ UNCHANGED <<rlHandle, rlFile, rlReleased, besidesRelease>>

\* the release settles: resolved, `this.releaseBrowserLock = null` follows;
\* rejected (the lock was already marked released), the catch only logs
ReleaseSettled(i) ==
    /\ rlLast[i] = "releasing"
    /\ rlLast' = [rlLast EXCEPT ![i] = "released"]
    /\ IF ~rlReleased[i]
       THEN /\ rlHandle' = [rlHandle EXCEPT ![i] = FALSE]
            /\ rlReleased' = [rlReleased EXCEPT ![i] = TRUE]
            /\ rlFile' = IF rlFile = i THEN NoOwner ELSE rlFile
       ELSE UNCHANGED <<rlHandle, rlFile, rlReleased>>
    /\ UNCHANGED besidesRelease

ReleaseNext ==
    \/ \E i \in Instances : AcquireBrowserLockCalled(i)
    \/ \E i \in Instances : LockResolved(i)
    \/ \E i \in Instances : OnCompromised(i)
    \/ \E i \in Instances : ReleaseBrowserLockIfHeldCalled(i)
    \/ \E i \in Instances : ReleaseSettled(i)

\* ------------------------------------------------------------ validateSession

\* checkCookie: without a page the error is no_page; a throw of goto (made
\* only off claude.ai) or of page.cookies is caught and its message returned;
\* otherwise the sessionKey cookie is looked up and its expiry compared with
\* the clock, in seconds
checkCookie(in) ==
    LET thrown == IF ~in.onClaude /\ in.gotoThrows # "no" THEN in.gotoThrows
                  ELSE in.cookiesThrows
    IN
    IF ~in.hasPage
    THEN [exists |-> FALSE, expired |-> TRUE, error |-> "no_page"]
    ELSE IF thrown # "no"
    THEN [exists |-> FALSE, expired |-> TRUE,
          error |-> IF thrown = "empty_message" THEN "" ELSE "message"]
    ELSE IF ~in.sessionKey.found
    THEN [exists |-> FALSE, expired |-> TRUE, error |-> "null"]
    ELSE [exists |-> TRUE, expired |-> in.sessionKey.expires <= in.now,
          error |-> "null"]

ValidateIdle ==
    /\ vsPc = "idle"
    /\ vsIn = [hasPage |-> FALSE, onClaude |-> FALSE, gotoThrows |-> "no",
               cookiesThrows |-> "no",
               sessionKey |-> [found |-> FALSE, expires |-> 0], now |-> 0]
    /\ vsCheck = [error |-> "none"]
    /\ vsApi = "none"
    /\ vsOut = [valid |-> FALSE, reason |-> "none"]

\* validateSession is called: `if (!this.page)` returns no_page, otherwise
\* checkCookie is awaited
ValidateSessionCalled(in) ==
    /\ vsPc = "idle"
    /\ vsIn' = in
    /\ vsCheck' = [error |-> "none"]
    /\ vsApi' = "none"
    /\ IF in.hasPage
       THEN /\ vsPc' = "checkCookie"
            /\ UNCHANGED vsOut
       ELSE /\ vsPc' = "returned"
            /\ vsOut' = [valid |-> FALSE,
                         reason |-> validateSessionReason(FALSE, FALSE, FALSE, TRUE, "none")]
    /\ UNCHANGED besidesValidate

\* checkCookie has returned: `if (cookieCheck.error)` (null and the empty
\* string are falsy), `if (!cookieCheck.exists)`, `if (cookieCheck.expired)`,
\* and only then the probe
CheckCookieReturned ==
    LET c == checkCookie(vsIn)
        checkError == c.error \notin {"null", ""}
    IN
    /\ vsPc = "checkCookie"
    /\ vsCheck' = c
    /\ IF checkError \/ ~c.exists \/ c.expired
       THEN /\ vsPc' = "returned"
            /\ vsOut' = [valid |-> FALSE,
                         reason |-> validateSessionReason(TRUE, checkError, c.exists,
                                                          c.expired, "none")]
       ELSE /\ vsPc' = "probe"
            /\ UNCHANGED vsOut
    /\ UNCHANGED <<vsIn, vsApi, besidesValidate>>

\* page.evaluate of the fetch of the organizations API: response.ok, false
\* when the fetch failed in the page, or a throw of evaluate that the catch
\* turns into validation_error
ProbeAnswered(api) ==
    LET reason == validateSessionReason(TRUE, FALSE, TRUE, FALSE, api) IN
    /\ vsPc = "probe"
    /\ vsApi' = api
    /\ vsPc' = "returned"
    /\ vsOut' = [valid |-> reason = "valid", reason |-> reason]
    /\ UNCHANGED <<vsIn, vsCheck, besidesValidate>>

\* the caller has the result; the next call
ValidateSessionOver ==
    /\ vsPc = "returned"
    /\ vsPc' = "idle"
    /\ UNCHANGED <<vsIn, vsCheck, vsApi, vsOut, besidesValidate>>

ValidateNext ==
    LET Throws == {"no", "message", "empty_message"}
        Jars   == {[found |-> FALSE, expires |-> 0]} \cup
                  {[found |-> TRUE, expires |-> e] : e \in -1 .. MaxSeconds}
        Ins    == [hasPage : BOOLEAN, onClaude : BOOLEAN, gotoThrows : Throws,
                   cookiesThrows : Throws, sessionKey : Jars, now : 0 .. MaxSeconds]
    IN
    \/ \E in \in Ins : ValidateSessionCalled(in)
    \/ CheckCookieReturned
    \/ \E api \in ApiAnswers : ProbeAnswered(api)
    \/ ValidateSessionOver

\* ------------------------------------------------------------ the login wait's budget

\* TIMEOUTS.LOGIN_POLL, ms
LoginPoll == 2000

\* a loop that makes one more turn when the budget is just used up
LoopGoesOnInclusive(start, now) == now - start <= LoginWait

\* waitForLogin: while (Date.now() - startTime < maxWaitMs)
LoopGoesOn(start, now) == now - start < LoginWait

BudgetIdle ==
    /\ twPc = "idle"
    /\ twNow = 0
    /\ twStart = 0
    /\ twPolls = 0
    /\ twSaw = "nothing"
    /\ twLastPoll = 0
    /\ twResult = "waiting"

\* waitForLogin is called with the defaults: startTime = Date.now()
WaitForLoginCalled ==
    /\ twPc = "idle"
    /\ twPc' = "loop"
    /\ twStart' = twNow
    /\ UNCHANGED <<twNow, twPolls, twSaw, twLastPoll, twResult, besidesBudget>>

\* the while test passes and sleep(pollIntervalMs) is over
Slept ==
    /\ twPc = "loop"
    /\ LoopGoesOn(twStart, twNow)
    /\ twNow' = twNow + LoginPoll
    /\ twPc' = "poll"
    /\ UNCHANGED <<twStart, twPolls, twSaw, twLastPoll, twResult, besidesBudget>>

\* the body of the loop after the sleep: the handle tests and page.cookies,
\* which took d ms; a closure or the cookie returns, anything else (an error
\* that is no closure included) goes back to the while test
Polled(o, d) ==
    /\ twPc = "poll"
    /\ twNow' = twNow + d
    /\ twLastPoll' = d
    /\ twPolls' = twPolls + 1
    /\ twSaw' = o
    /\ twResult' = PollOutcome(o)
    /\ twPc' = IF PollOutcome(o) = "waiting" THEN "loop" ELSE "returned"
    /\ UNCHANGED <<twStart, besidesBudget>>

\* the while test fails: waitForLogin returns the timeout
BudgetSpent ==
    /\ twPc = "loop"
    /\ ~LoopGoesOn(twStart, twNow)
    /\ twPc' = "returned"
    /\ twResult' = "timeout"
    /\ UNCHANGED <<twNow, twStart, twPolls, twSaw, twLastPoll, besidesBudget>>

BudgetNext ==
    \/ WaitForLoginCalled
    \/ Slept
    \/ \E o \in PollSees : \E d \in {0, MaxPollMs} : Polled(o, d)
    \/ BudgetSpent

\* ------------------------------------------------------------ specification

\* every part idle
AuxIdle == WaitIdle /\ ReadIdle /\ LockIdle /\ CaptureIdle /\ FetchDataIdle /\ HandlesIdle /\ ReportIdle /\ ResetIdle /\ ReleaseIdle /\ ValidateIdle /\ BudgetIdle

\* nothing going on anywhere, no session files
Quiet == FetchIdle /\ profile = "empty" /\ AuxIdle

WaitInit == Quiet

WaitSpec == WaitInit /\ [][WaitNext]_vars

ReadInit == Quiet

ReadSpec == ReadInit /\ [][ReadNext]_vars

LockInit == Quiet

LockSpec == LockInit /\ [][LockNext]_vars /\ LockFairness

CaptureInit == Quiet

CaptureSpec == CaptureInit /\ [][CaptureNext]_vars

FetchDataInit == Quiet

FetchDataSpec == FetchDataInit /\ [][FetchDataNext]_vars

HandlesInit == Quiet

HandlesSpec == HandlesInit /\ [][HandlesNext]_vars

ReportInit == Quiet

ReportSpec == ReportInit /\ [][ReportNext]_vars

ResetInit == Quiet

ResetSpec == ResetInit /\ [][ResetNext]_vars

ReleaseInit == Quiet

ReleaseSpec == ReleaseInit /\ [][ReleaseNext]_vars

ValidateInit == Quiet

ValidateSpec == ValidateInit /\ [][ValidateNext]_vars

BudgetInit == Quiet

\* the sleep's timer fires and the cookie check settles
BudgetSpec == BudgetInit /\ [][BudgetNext]_vars /\ WF_vars(BudgetNext)

Next ==
    \/ UNCHANGED auxVars /\ \E i \in Instances : TimerTick(i)
    \/ UNCHANGED auxVars /\ \E i \in Instances : FetchNow(i)
    \/ UNCHANGED auxVars /\ \E t \in Threads : initialize(t)
    \/ UNCHANGED auxVars /\ \E t \in Threads : acquireBrowserLock(t)
    \/ UNCHANGED auxVars /\ \E t \in Threads : acquireBrowserLockBusy(t)
    \/ UNCHANGED auxVars /\ \E t \in Threads : \E outcome \in LaunchOutcomes : initializeLaunch(t, outcome)
    \/ UNCHANGED auxVars /\ \E t \in Threads : ensureLoggedIn(t)
    \/ UNCHANGED auxVars /\ \E t \in Threads : \E v \in ValidateReasons : validateSession(t, v)
    \/ UNCHANGED auxVars /\ \E t \in Threads : \E outcome \in OpenOutcomes : openLoginBrowser(t, outcome)
    \/ UNCHANGED auxVars /\ \E t \in Threads : waitForLogin(t)
    \/ UNCHANGED auxVars /\ \E t \in Threads : openLoginBrowserGoto(t)
    \/ UNCHANGED auxVars /\ \E t \in Threads : fetchUsageData(t)
    \/ UNCHANGED auxVars /\ \E t \in Threads : close(t)
    \/ UNCHANGED auxVars /\ \E t \in Threads : closeRelease(t)
    \/ UNCHANGED auxVars /\ \E i \in Instances : \E outcome \in OpenOutcomes : OpenBrowserCommand(i, outcome)
    \/ UNCHANGED auxVars /\ \E i \in Instances : Crash(i)
    \/ UNCHANGED auxVars /\ LockGoesStale

\* every window idle, nothing else going on
Init == FetchIdle /\ AuxIdle

Spec == Init /\ [][Next]_vars

\* the windows with the Clear Session command as well
ClearInit == Init

ClearNext ==
    \/ Next
    \/ UNCHANGED auxVars /\ \E i \in Instances : ClearSessionCommand(i)

ClearSpec == ClearInit /\ [][ClearNext]_vars

\* ------------------------------------------------------------ properties

\* the awaits of lockfile.lock
LockWaitPcs == {"initLock", "olLock", "olReLock"}

\* a step in which instance i launches a browser on the profile directory
LaunchBy(i) ==
    \/ \E t \in Threads : Inst(t) = i /\ initializeLaunch(t, "ok")
    \/ \E t \in Threads : \E o \in OpensBrowser :
         Inst(t) = i /\ openLoginBrowser(t, o)
    \/ \E o \in OpensBrowser : OpenBrowserCommand(i, o)

C2_LaunchOnlyUnderLock ==
    [][\A i \in Instances :
          LaunchBy(i) => releaseBrowserLock[i] /\ lockOwner = i]_vars

C4_LoggingInReplaced ==
    \A t \in Threads :
       (alive[Inst(t)] /\ stateFile.state = "logging_in" /\ stateFile.writer = t)
          => pc[t] \in {"olOpen", "olWait"}

\* C4 witness: the login was cancelled, openLoginBrowser is about to throw
\* and the record of this call reads login_failed
C4_CancelledLeftLoginFailed ==
    \E t \in Threads :
       /\ pc[t] \in {"close", "closeRel"}
       /\ ret[t] = "cancel"
       /\ stateFile.state = "login_failed"
       /\ stateFile.writer = t

\* C5: a fetch cycle that starts while the state file holds a fresh
\* logging_in record performs no browser operation (no launch, no
\* navigation, no cookie or API probe).
C5_NoBrowserOpsWhileLoggingIn ==
    \A t \in Threads : startLI[t] => ~ops[t]

\* C6: within a fetch cycle the shared state is read before the lock is
\* contended for, and only a cycle whose read returned unknown contends.
C6_ReadBeforeLock ==
    \A t \in Threads :
       (pc[t] \in LockWaitPcs \/ acq[t]) => sharedRead[t] = "unknown"

\* C7: an ensureLoggedIn that reads a fresh login_failed record throws
\* LOGIN_FAILED_SHARED at once: the state file is not modified, the session
\* is not validated, no login browser is opened and no lock is asked for.
C7_LoginFailedDegrades ==
    /\ [](\A t \in Threads : sharedRead[t] = "login_failed" =>
            /\ pc[t] \in {"close", "closeRel"}
            /\ err[t] = "LOGIN_FAILED_SHARED")
    /\ [][\A t \in Threads :
            (sharedRead[t] = "unread" /\ sharedRead'[t] = "login_failed") =>
               /\ err'[t] = "LOGIN_FAILED_SHARED"
               /\ pc'[t] = "close"
               /\ stateFile' = stateFile
               /\ ops'[t] = ops[t]
               /\ acq'[t] = acq[t]
               /\ UNCHANGED <<profile, lockOwner, lockStale, releaseBrowserLock,
                              browser, page, isInitialized, isConnectedBrowser,
                              authLive>>]_vars

\* C7 witness: a call read login_failed and is left with the degrade signal
C7_Degraded ==
    \E t \in Threads :
       /\ sharedRead[t] = "login_failed"
       /\ err[t] = "LOGIN_FAILED_SHARED"
       /\ stateFile.state = "login_failed"
       /\ stateFile.fresh

\* C8: at most one performFetch of an instance is in flight at any time.
C8_NoOverlap ==
    \A i \in Instances :
       Cardinality({c \in Slots : pc[<<i, c>>] # "idle"}) <= 1

\* C9: an automatic performFetch that starts after a cycle of the instance
\* ended with login cancelled, and before any manual fetch, is skipped: it
\* never enters fetchUsage, launches no browser and opens no login prompt.
C9_NoAutoRetryAfterCancel ==
    \A t \in Threads : afterCancel[t] =>
       /\ pc[t] = "idle"
       /\ ~ops[t]
       /\ err[t] = "SKIPPED_LOGIN_CANCELLED"

\* C9 witness: a timer tick after a cancelled login was skipped
C9_SkippedTick ==
    \E t \in Threads :
       /\ afterCancel[t]
       /\ loginWasCancelled[Inst(t)]
       /\ err[t] = "SKIPPED_LOGIN_CANCELLED"

\* C10: when openLoginBrowser throws LOGIN_CANCELLED the scraper is in the
\* clean closed state (browser, page null, isInitialized and
\* isConnectedBrowser false) and the instance holds no browser lock.
C10_CancelledIsClean ==
    [][\A t \in Threads :
          (err[t] # "LOGIN_CANCELLED" /\ err'[t] = "LOGIN_CANCELLED") =>
             LET i == Inst(t) IN
             /\ ~browser'[i]
             /\ ~page'[i]
             /\ ~isInitialized'[i]
             /\ ~isConnectedBrowser'[i]
             /\ ~releaseBrowserLock'[i]]_vars

\* C11: a validateSession that fails with cookie_check_error (a transient
\* error of the cookie check) opens no login browser and writes no
\* logging_in: the cycle goes on to fetch the usage data.
C11_TransientErrorFetchesAnyway ==
    [][\A t \in Threads :
          validateSession(t, "cookie_check_error") =>
             /\ pc'[t] = "fetch"
             /\ stateFile'.state # "logging_in"]_vars

\* C12: an ensureLoggedIn that finds no session files and reads the shared
\* state as unknown goes to openLoginBrowser, and a call enters
\* validateSession only from an ensureLoggedIn that found session files.
C12_NoSessionSkipsValidation ==
    [][\A t \in Threads :
          /\ (/\ sharedRead[t] = "unread"
              /\ sharedRead'[t] = "unknown"
              /\ ~hasExistingSession(profile))
                => pc'[t] \in {"olLock", "olOpen"}
          /\ (pc[t] # "validate" /\ pc'[t] = "validate")
                => (/\ hasExistingSession(profile)
                    /\ sharedRead[t] = "unread"
                    /\ sharedRead'[t] = "unknown")]_vars

\* C12 witness: a call without session files read unknown and is in
\* openLoginBrowser, having done no browser operation
C12_StraightToLogin ==
    \E t \in Threads :
       /\ pc[t] \in {"olLock", "olOpen"}
       /\ sharedRead[t] = "unknown"
       /\ profile = "empty"
       /\ ~ops[t]

\* C13: a cookie that exists and is not expired with a 2xx answer of the
\* organizations probe makes validateSession return valid, and on valid
\* ensureLoggedIn takes the fast path: no openLoginBrowser, no logging_in
\* written, no browser launched, no lock asked for.
C13_ValidSessionNoLogin ==
    /\ [](validateSessionReason(TRUE, FALSE, TRUE, FALSE, "ok") = "valid")
    /\ [][\A t \in Threads :
            validateSession(t, "valid") =>
               /\ pc'[t] \in {"fetch", "close"}
               /\ pc'[t] = "close" => err'[t] = "LOAD_FAILED"
               /\ stateFile' = BrowserStateClear
               /\ acq'[t] = acq[t]
               /\ UNCHANGED <<lockOwner, releaseBrowserLock, browser, page,
                              isInitialized, authLive>>]_vars

\* C13 witness: the only call in flight validated its session and is at
\* fetchUsageData under the lock initialize took
C13_FastPath ==
    \E t \in Threads :
       /\ pc[t] = "fetch"
       /\ acq[t]
       /\ sharedRead[t] = "unknown"
       /\ stateFile.state = "none"
       /\ \A u \in Threads : u # t => pc[u] = "idle"

\* C14: waitForLogin returns exactly one of success, cancelled and timed out:
\* success when the last poll saw the cookie, cancelled when it saw a closure
\* (handle missing, disconnected, closed-target error), timed out only after
\* the whole budget of polls none of which saw the cookie or a closure; the
\* returned object never has success and cancelled both true.
C14_WaitOutcomes ==
    LET Closures == {"no_handle", "disconnected", "closed_error"}
        Decisive == Closures \cup {"cookie"}
        n        == Len(wPolls)
        ret0     == WaitReturn(wResult)
    IN
    /\ wResult \in {"waiting", "success", "cancelled", "timeout"}
    /\ ~(ret0.success /\ ret0.cancelled)
    /\ \A k \in 1..(n - 1) : wPolls[k] \notin Decisive
    /\ wResult = "success"   <=> (n > 0 /\ wPolls[n] = "cookie")
    /\ wResult = "cancelled" <=> (n > 0 /\ wPolls[n] \in Closures)
    /\ wResult = "timeout"   =>
          /\ n = MaxPolls
          /\ \A k \in 1..n : wPolls[k] \notin Decisive
          /\ ~ret0.success /\ ~ret0.cancelled

\* C14 witness: the wait timed out after polls that met other errors and no
\* cookie
C14_TimedOut ==
    /\ wResult = "timeout"
    /\ \E k \in 1..Len(wPolls) : wPolls[k] = "other_error"
    /\ \E k \in 1..Len(wPolls) : wPolls[k] = "no_cookie"

\* C16: once waitForLogin reported success, the rest of openLoginBrowser (the
\* close, the headless relaunch with its lock, the load of the usage page)
\* leaves the shared state cleared whether it returns or throws: the call
\* writes login_failed only when the browser failed to open, the login was
\* cancelled or it timed out.
C16_ClearedAfterSuccess ==
    [][\A t \in Threads :
          (\/ pc[t] \in {"olReInit", "olReLock", "olReLaunch", "olGoto"}
           \/ pc[t] \in {"close", "closeRel"} /\ ret[t] = "reinit")
          => ~(/\ stateFile' # stateFile
               /\ stateFile' = BrowserStateWrite("login_failed", t))]_vars

\* C17: acquireBrowserLock called by a window whose releaser handle is set
\* returns at once: the call never goes to wait on the lock file, and the
\* holder of the lock, its staleness and the stored releaser stay as they are.
C17_ReentrantAcquire ==
    [][\A t \in Threads :
          (/\ releaseBrowserLock[Inst(t)]
           /\ pc[t] \notin LockWaitPcs
           /\ pc'[t] # pc[t])
          => /\ pc'[t] \notin LockWaitPcs
             /\ pc'[t] \in {"olOpen", "initLaunch", "olReLaunch"} =>
                   /\ acq'[t]
                   /\ UNCHANGED <<lockOwner, lockStale, releaseBrowserLock>>]_vars

\* C17 witness: a call that took the lock in initialize and launched the
\* browser has entered openLoginBrowser, whose acquireBrowserLock found the
\* handle set
C17_ReenteredForLogin ==
    \E t \in Threads :
       /\ pc[t] = "olOpen"
       /\ ops[t] /\ acq[t]
       /\ browser[Inst(t)]
       /\ releaseBrowserLock[Inst(t)] /\ lockOwner = Inst(t)
       /\ \A u \in Threads : u # t => pc[u] = "idle"

\* C15: BrowserState.read returns the stored record exactly when the file
\* exists, parses and carries a timestamp less than 300000 ms old, and state
\* unknown in every other case (missing, unparsable, no timestamp, 5 minutes
\* old or older); a logging_in record nobody replaced reads unknown once
\* 5 minutes have passed.
C15_ReadFreshOrUnknown ==
    bsOut.state # "not_read" =>
       LET f     == bsAt.file
           age   == bsAt.now - f.timestamp
           fresh == /\ f.kind = "record"
                    /\ age < 300000
       IN /\ fresh => bsOut = [state |-> f.state, timestamp |-> f.timestamp]
          /\ ~fresh => bsOut.state = "unknown"
          /\ (f.kind = "record" /\ f.state = "logging_in" /\ age >= 300000)
                => bsOut.state = "unknown"

\* C15 witness: a logging_in record exactly 5 minutes old was read as unknown
C15_MarkerExpired ==
    /\ bsOut = Unknown
    /\ bsAt.file.kind = "record"
    /\ bsAt.file.state = "logging_in"
    /\ bsAt.now - bsAt.file.timestamp = 300000

C20_AbandonedLockReclaimed ==
    \A d \in Instances :
       (lkSt[d] = "dead" /\ lkOwner = d)
          ~> (\E i \in Instances : lkSt[i] = "holding" /\ lkOwner = i)

\* C20 witness: a window holds the lock it took from a dead window after
\* the stale time
C20_TookOverStale ==
    \E i, d \in Instances :
       /\ lkSt[d] = "dead" /\ lkHandle[d]
       /\ lkSt[i] = "holding" /\ lkOwner = i
       /\ lkReclaimed

\* C21: for each of the three endpoint shapes the handler keeps the URL (and
\* for usage the headers) of the first matching request of the session: a
\* later request of the same shape leaves what was captured unchanged.
C21_FirstCaptureKept ==
    /\ firstSeen["usage"] # NoRequest =>
          /\ apiEndpoint = firstSeen["usage"].url
          /\ apiHeaders = firstSeen["usage"].headers
    /\ firstSeen["prepaidCredits"] # NoRequest =>
          creditsEndpoint = firstSeen["prepaidCredits"].url
    /\ firstSeen["overageSpendLimit"] # NoRequest =>
          overageEndpoint = firstSeen["overageSpendLimit"].url

\* what went wrong on the direct API path of the current fetchUsageData
ApiPathFailed ==
    /\ fdLoaded = "ok"
    /\ \/ ~fdCaptured["usage"]
       \/ fdCalls["usage"] \in {"non2xx", "throws"}
       \/ fdNorm = "throws"

\* C22: a failure of the direct API path (usage endpoint not captured, the
\* usage call throws or answers non-2xx, normalization throws) does not end
\* the fetch: the scrape is what runs next, its outcome is the outcome of the
\* fetch, and the layout-changed error comes only from a scrape that found
\* no percentage.
C22_ApiFailureFallsBack ==
    /\ ApiPathFailed =>
          /\ fdPc \in {"scrape", "done", "idle"}
          /\ fdPc \in {"done", "idle"} =>
                /\ fdScrape # "none"
                /\ fdOut = "scrape_snapshot" <=> fdScrape = "found"
                /\ fdOut = "LAYOUT_CHANGED" <=> fdScrape = "not_found"
    /\ fdOut = "LAYOUT_CHANGED" => fdScrape = "not_found"

\* C22 witness: normalization threw and the scrape delivered the snapshot
C22_ScrapedAfterNormalizeThrew ==
    /\ fdNorm = "throws"
    /\ fdOut = "scrape_snapshot"

\* C23: once the usage call succeeded, whatever the credits and the overage
\* call do (endpoint not captured, non-2xx, throw) the fetch stays on the API
\* path: normalization is reached, it is given null for an endpoint that did
\* not deliver, and neither an error nor the scrape comes of it.
C23_OptionalCallsTolerated ==
    fdCalls["usage"] = "ok" =>
       /\ fdPc \in {"credits", "overage", "normalize", "scrape", "done", "idle"}
       /\ (fdPc = "scrape" \/ fdScrape # "none" \/ fdOut = "error")
             => fdNorm = "throws"
       /\ fdPc \in {"scrape", "done", "idle"} => fdNorm # "none"
       /\ fdArgs.credits # "none" =>
             fdArgs.credits =
                IF fdCalls["prepaidCredits"] = "ok" THEN "data" ELSE "null"
       /\ fdArgs.overage # "none" =>
             fdArgs.overage =
                IF fdCalls["overageSpendLimit"] = "ok" THEN "data" ELSE "null"
       /\ fdNorm = "ok" => fdOut = "api_snapshot"

\* C23 witness: an API snapshot although the credits call threw and the
\* overage call answered non-2xx
C23_SnapshotWithoutOptionalData ==
    /\ fdOut = "api_snapshot"
    /\ fdCalls["prepaidCredits"] = "throws"
    /\ fdCalls["overageSpendLimit"] = "non2xx"
    /\ fdArgs = [credits |-> "null", overage |-> "null"]

C25_HandlesConsistent ==
    /\ [](hPage => hBrowser # NoBrowser)
    /\ [](hInit => (hBrowser # NoBrowser /\ hPage))
    /\ [][(hBrowser # NoBrowser /\ hBrowser' = NoBrowser) => ~hPage']_vars

\* C26: when findChrome finds no browser the cycle ends with the distinct
\* browser-not-found signal (fetchUsage's "Chromium-based browser required"
\* web error), through initialize as through forceOpenBrowser, and not with
\* the generic launch-failed or open-failed error.
C26_NoChromeIsReported ==
    (rpPc = "over" /\ rpCause = "noChrome") => rpWebError = ChromeRequired

\* C27: a cycle skipped with LOGIN_IN_PROGRESS reports no web error:
\* webError is null, the status bar shows no warning and a manual fetch shows
\* no error message.
C27_SkippedCycleIsSilent ==
    (rpPc = "over" /\ rpCause = "loginInProgress") =>
        /\ rpWebError = NoMessage
        /\ rpBar = "plain"
        /\ rpShown = NoMessage

\* C28: for a reset D whole minutes ahead, with h = D div 60 and
\* m = D mod 60, calculateResetTime returns Soon when the difference is zero
\* or negative, {h div 24}d {h mod 24}h when h > 24, {h}h {m}m when
\* 0 < h <= 24 and {m}m when h = 0; 26 hours ahead render as 1d 2h.
C28_BranchRules ==
    (/\ rtPc = "rendered"
     /\ rtIso.kind = "iso"
     /\ (rtIso.ms - rtNow) % MsPerMinute = 0) =>
        LET D == (rtIso.ms - rtNow) \div MsPerMinute
            h == D \div 60
            m == D % 60
        IN  /\ D <= 0 => rtRel = SoonText
            /\ (D > 0 /\ h > 24) =>
                  rtRel = Digits(h \div 24) \o <<"d", " ">> \o Digits(h % 24) \o <<"h">>
            /\ (D > 0 /\ 0 < h /\ h <= 24) =>
                  rtRel = Digits(h) \o <<"h", " ">> \o Digits(m) \o <<"m">>
            /\ (D > 0 /\ h = 0) => rtRel = Digits(m) \o <<"m">>
            /\ D = 26 * 60 => rtRel = <<"1", "d", " ", "2", "h">>

C28_TwentySixHoursAhead ==
    /\ rtPc = "rendered"
    /\ rtIso.kind = "iso"
    /\ rtIso.ms - rtNow = 26 * MsPerHour
    /\ rtRel = <<"1", "d", " ", "2", "h">>

\* C29: calculateResetTime returns Unknown for a missing timestamp and for
\* a present but unparsable one; it never returns a string built from an
\* invalid number.
C29_UnknownWhenNotComputable ==
    (rtPc = "rendered" /\ rtIso.kind \in {"missing", "unparsable"}) =>
        rtRel = UnknownText

\* C30 as stated: for every relative string of optional d, h, m parts, the
\* string rendered for a reset TotalMinutes ahead shows the same units.
C30_SameUnitsForEveryString ==
    rtPc = "again" => Units(rtAgain) = Units(rtRel)

\* C30: for every relative string that calculateResetTime itself renders,
\* 0m (a reset less than a minute ahead) excepted, the string rendered for
\* a reset TotalMinutes ahead shows the same units.
C30_SameUnitsForRendered ==
    (rtPc = "again" /\ rtIso.kind = "iso" /\ rtRel # <<"0", "m">>) =>
        Units(rtAgain) = Units(rtRel)

C30_DaysAndHoursAgain ==
    /\ rtPc = "again"
    /\ rtIso.kind = "iso"
    /\ rtRel = <<"1", "d", " ", "2", "h">>
    /\ rtTotal = 26 * 60
    /\ rtAgain = rtRel

C32_OwnedBrowserUnderLock ==
    /\ \A i \in Instances :
          (alive[i] /\ browser[i] /\ authLive[i] /\ ~isConnectedBrowser[i]) =>
             releaseBrowserLock[i] /\ lockOwner = i
    /\ \A t \in Threads :
          (alive[Inst(t)] /\ pc[t] = "fetch" /\ browser[Inst(t)] /\ authLive[Inst(t)]) =>
             releaseBrowserLock[Inst(t)] /\ lockOwner = Inst(t)

\* C33: a fetch cycle that ends with an early error (LOGIN_IN_PROGRESS,
\* LOGIN_FAILED_SHARED, Browser busy) leaves alone the browser and the lock of
\* another cycle of the same instance that is still in its interactive login:
\* its steps neither close the login browser nor release the lock held for it.
C33_EarlyEndLeavesLoginAlone ==
    [][\A t \in Threads : \A u \in Threads :
          LET i == Inst(t) IN
          (/\ Inst(u) = i /\ u # t
           /\ pc[u] = "olWait"
           /\ pc[t] \in {"close", "closeRel"}
           /\ err[t] \in {"LOGIN_IN_PROGRESS", "LOGIN_FAILED_SHARED", "BROWSER_BUSY"}
           /\ pc'[t] # pc[t]) =>
             /\ browser'[i] = browser[i]
             /\ releaseBrowserLock'[i] = releaseBrowserLock[i]]_vars

\* C34: after a cancelled login a manual retry (performFetch(true)) of the
\* same instance opens the login browser again, also while the login_failed
\* record this instance wrote is still fresh: the retry that reads that record
\* goes on into openLoginBrowser and does not end at the state check.
C34_ManualRetryReopensLogin ==
    [][\A i \in Instances : \A c \in Slots :
          LET t == <<i, c>> IN
          (/\ performFetch(i, TRUE, FALSE)
           /\ loginWasCancelled[i]
           /\ pc[t] = "idle" /\ pc'[t] # "idle"
           /\ ~hasExistingSession(profile)
           /\ stateFile'.state = "login_failed"
           /\ stateFile'.fresh
           /\ Inst(stateFile'.writer) = i) =>
             /\ pc'[t] \in {"olLock", "olOpen"}
             /\ err'[t] # "LOGIN_FAILED_SHARED"]_vars

\* C35: the handle releaseBrowserLock is set only while the window really
\* holds the lock file: when releaseBrowserLockIfHeld has returned the handle
\* is null, also when the release itself failed, so an acquireBrowserLock that
\* answers "already holding" is made by a window whose lock the file is.
C35_HandleMeansHolding ==
    \A i \in Instances :
       /\ rlLast[i] = "released" => ~rlHandle[i]
       /\ rlLast[i] = "already_holding" => rlFile = i

\* C36: for the whole of an interactive login, from the write of logging_in
\* to the write of its outcome, a read returns logging_in: the record does
\* not turn into unknown while the login wait of up to 300 s, which starts
\* only after the launch and the load of the login page, can still be running.
C36_LoggingInLastsTheLogin ==
    (/\ bsAt.file.kind = "record"
     /\ bsAt.file.state = "logging_in"
     /\ bsAt.now - bsAt.file.timestamp <= LoginWait) =>
        bsOut.state = "logging_in"

\* C38: clearSession removes the profile directory only when no window has a
\* live browser on it: the window that removes it has closed its own browser,
\* and no other window holds the browser lock (or has a browser open) at the
\* moment of the removal.
C38_ClearedOnlyWhenUnused ==
    [][\A i \in Instances :
          (ClearSessionCommand(i) /\ profile' = "empty" /\ profile # "empty") =>
             /\ ~browser'[i]
             /\ \A j \in Instances \ {i} :
                   /\ ~(alive[j] /\ releaseBrowserLock[j] /\ lockOwner = j)
                   /\ ~(alive[j] /\ browser[j] /\ authLive[j])]_vars

\* C37: in every state reached without a crash, a fresh logging_in record
\* means that the window which wrote it holds the exclusive lock now: the
\* record is written only after the lock was taken and is replaced before
\* that window releases the lock.
C37_LoggingInUnderLock ==
    ((\A j \in Instances : alive[j])
       /\ stateFile.state = "logging_in" /\ stateFile.fresh) =>
          LET i == Inst(stateFile.writer) IN
          releaseBrowserLock[i] /\ lockOwner = i

\* C39: validateSession always returns a result: the organizations probe is
\* made only when the cookie check reported no error and found a sessionKey
\* cookie that has not expired; valid is true exactly when the probe was made
\* and answered 2xx, and otherwise the reason is one of no_page,
\* cookie_check_error, no_cookie, cookie_expired, server_rejected,
\* validation_error.
C39_ValidateSessionResult ==
    /\ vsPc \in {"idle", "checkCookie", "probe", "returned"}
    /\ vsApi # "none" =>
          /\ vsIn.hasPage
          /\ vsCheck.error = "null"
          /\ vsIn.sessionKey.found
          /\ vsIn.sessionKey.expires > vsIn.now
    /\ vsPc = "returned" =>
          /\ vsOut.valid <=> vsApi = "ok"
          /\ vsOut.valid => vsOut.reason = "valid"
          /\ ~vsOut.valid =>
                vsOut.reason \in {"no_page", "cookie_check_error", "no_cookie",
                                  "cookie_expired", "server_rejected",
                                  "validation_error"}

\* C39 witness: the cookie was good, the probe was made and its evaluate
\* threw; validateSession returned validation_error
C39_ProbeThrew ==
    /\ vsPc = "returned"
    /\ vsApi = "throws"
    /\ vsOut = [valid |-> FALSE, reason |-> "validation_error"]

\* C40: waitForLogin always terminates. It makes at most
\* ceil(maxWaitMs / pollIntervalMs) polls (150 with 300000 / 2000) and
\* returns less than one poll interval plus the time of its last cookie check
\* after the wait budget has elapsed; a poll that met an error which is no
\* closure does not end the wait and does not move the start of the budget.
C40_WaitTerminatesInBudget ==
    /\ [](twPolls <= (LoginWait + LoginPoll - 1) \div LoginPoll)
    /\ [](twPc = "returned" =>
             twNow - twStart < LoginWait + LoginPoll + twLastPoll)
    /\ [][(twPc = "poll" /\ twSaw' = "other_error") =>
             (twPc' = "loop" /\ twStart' = twStart)]_vars
    /\ (twPc = "loop") ~> (twPc = "returned")

\* C40 witness: the wait timed out after all 150 polls, the last of which met
\* an error that is no closure
C40_AllPollsUsed ==
    /\ twPc = "returned"
    /\ twResult = "timeout"
    /\ twPolls = (LoginWait + LoginPoll - 1) \div LoginPoll
    /\ twSaw = "other_error"

\* C40 as stated: waitForLogin returns no later than one poll interval after
\* the wait budget has elapsed.
C40_ReturnsWithinOnePoll ==
    twPc = "returned" => twNow - twStart <= LoginWait + LoginPoll

====
